---- MODULE Spec2Model ----
(***************************************************************************)
(* Model of the envelope-budgeting backend: the transaction ledger         *)
(* (routers/transactions.py), the envelope allocator (routers/budget.py,   *)
(* routers/categories.py, services/budget_service.py) and the account      *)
(* endpoints (routers/accounts.py), over the record store's tables.        *)
(*                                                                         *)
(* Money is modelled as an integer number of currency units.  The code     *)
(* passes amounts through float(Decimal) on write and Decimal(str(float))  *)
(* on read; for the magnitudes used here (far below 15 significant         *)
(* digits) that round trip returns the same decimal, and the arithmetic    *)
(* of the handlers modelled here is done on Decimal values, so integer     *)
(* arithmetic is what these handlers compute.                              *)
(***************************************************************************)
EXTENDS Integers, Sequences, FiniteSets, TLC

VARIABLES
    accounts,       \* table "accounts":     id -> [user_id, balance, is_active]
    categories,     \* table "categories":   id -> [user_id, assigned_amount, activity_amount, is_hidden]
    transactions,   \* table "transactions": set of rows
    next_txn_id,    \* the id the store gives the next inserted transaction
    n_assign,       \* number of assign requests served so far
    n_amend,        \* number of amend requests served so far
    mv,             \* the move_money request in flight (step-wise specification)
    subscriptions,  \* table "subscriptions": set of rows
    next_sub_id,    \* the id the store gives the next inserted subscription
    pending_transactions,   \* table "pending_transactions": set of rows
    next_pending_id,        \* the id the store gives the next inserted pending item
    rq,             \* the ledger requests in flight (step-wise specifications)
    n_fail,         \* number of store accesses that have failed so far
    last            \* the last request served: operation, caller, input, outcome

vars == <<accounts, categories, transactions, next_txn_id, n_assign, n_amend, mv,
          subscriptions, next_sub_id, pending_transactions, next_pending_id, rq, n_fail,
          last>>

\* the state that the ledger, allocator and account handlers served without
\* interruption neither read nor write
other_state ==
    <<subscriptions, next_sub_id, pending_transactions, next_pending_id, rq, n_fail>>

----------------------------------------------------------------------------
(* Bounds of the model. *)

MaxTxns == 2
MaxAssigns == 2
MaxAmends == 1
MaxFails == 1

NULL == "null"

Users == {"u1", "u2"}
AccountIds == {"a1", "a2", "a3"}
CategoryIds == {"c1", "c2", "c3"}
\* an id no row of "categories" carries
MissingCategoryId == "c0"

AccountOwner == ("a1" :> "u1") @@ ("a2" :> "u1") @@ ("a3" :> "u2")
CategoryOwner == ("c1" :> "u1") @@ ("c2" :> "u1") @@ ("c3" :> "u2")
\* the balance each account was created with
OpeningBalance == ("a1" :> 1000) @@ ("a2" :> 200) @@ ("a3" :> 500)

TransactionTypes == {"expense", "income", "transfer"}
\* amounts of posted transactions
Amounts == {100}
\* an amount that is not positive (TransactionBase.amount is an unconstrained
\* Decimal)
NonPositiveAmounts == {0 - 50}
\* amounts of assign requests (CategoryAssign.amount is an unconstrained Decimal)
AssignAmounts == {300, 0 - 100}
\* amounts of move requests (MoveMoneyRequest.amount is an unconstrained Decimal)
MoveAmounts == {0 - 100, 0, 100, 300, 400}
\* accounts and categories the posted and amended transactions name
PostAccounts == {"a1"}
PatchAccounts == {"a3"}
PostCategories == {NULL, "c1"}
PatchCategories == {NULL, "c2"}
PatchTypes == {"expense", "income"}
PatchAmounts == {250}
\* balances an account update may set
PatchBalances == {0}

----------------------------------------------------------------------------
(* Helpers. *)

RECURSIVE SumOf(_, _)
\* Python's sum(row[field] for row in rows), rows given as ids into a table
SumOf(ids, val) ==
    IF ids = {} THEN 0
    ELSE LET x == CHOOSE y \in ids : TRUE
         IN val[x] + SumOf(ids \ {x}, val)

\* .eq("id", id).eq("user_id", user).single(): the row, when there is one
OwnedCategory(id, user) ==
    id \in DOMAIN categories /\ categories[id].user_id = user

Idle == [pc |-> "idle"]

\* the requests the step-wise specifications serve at the same time
Slots == {1, 2}

----------------------------------------------------------------------------
(* Ledger: routers/transactions.py *)

\* the row of "transactions" with this id owned by this user, as a set (0 or 1 rows)
TxnRows(transaction_id, user) ==
    {t \in transactions : t.id = transaction_id /\ t.user_id = user}

\* a mutant of post_new_balance: an income is subtracted like an expense
post_new_balance_mutant(current_balance, amount, transaction_type) ==
    IF transaction_type = "transfer" THEN current_balance
    ELSE current_balance - amount

\* create_transaction, lines 60-65: the balance after posting
post_new_balance(current_balance, amount, transaction_type) ==
    IF transaction_type = "expense" THEN current_balance - amount
    ELSE IF transaction_type = "income" THEN current_balance + amount
    ELSE current_balance

\* a mutant of touches_activity: the type of the transaction is not looked at
touches_activity_mutant(txn) == txn.category_id # NULL

\* create_transaction, line 67 (and delete_transaction, line 138):
\* whether the transaction touches its category's activity
touches_activity(txn) ==
    txn.category_id # NULL /\ txn.transaction_type = "expense"

\* create_transaction, lines 69-70
post_new_activity(current_activity, amount) == current_activity + amount

\* a mutant of void_new_balance: a voided income is left on the balance
void_new_balance_mutant(current_balance, amount, transaction_type) ==
    IF transaction_type = "expense" THEN current_balance + amount
    ELSE current_balance

\* delete_transaction, lines 131-136: the balance after voiding
void_new_balance(current_balance, amount, transaction_type) ==
    IF transaction_type = "expense" THEN current_balance + amount
    ELSE IF transaction_type = "income" THEN current_balance - amount
    ELSE current_balance

\* delete_transaction, lines 140-141
void_new_activity(current_activity, amount) == current_activity - amount

\* "accounts" after .update({"balance": b}).eq("id", id)
AccountsWithBalance(accs, id, b) == [accs EXCEPT ![id].balance = b]

\* "categories" after .update({"activity_amount": v}).eq("id", id)
CategoriesWithActivity(cats, id, v) == [cats EXCEPT ![id].activity_amount = v]

\* the row create_transaction inserts (lines 43-50, 56): the request's fields,
\* the caller as user_id, the id the store gives
new_row(id, user, data) ==
    [id |-> id,
     user_id |-> user,
     account_id |-> data.account_id,
     category_id |-> data.category_id,
     amount |-> data.amount,
     transaction_type |-> data.transaction_type]

\* create_transaction, lines 50-71, on the tables: insert the row, then
\* read-modify-write the account balance and, for an expense with a category,
\* the category activity
ledger_after_post(accs, cats, txns, txn) ==
    LET current_balance == accs[txn.account_id].balance
        new_balance == post_new_balance(current_balance, txn.amount, txn.transaction_type)
    IN [accounts |-> AccountsWithBalance(accs, txn.account_id, new_balance),
        categories |->
            IF touches_activity(txn)
            THEN CategoriesWithActivity(cats, txn.category_id,
                    post_new_activity(cats[txn.category_id].activity_amount, txn.amount))
            ELSE cats,
        transactions |-> txns \cup {txn}]

\* delete_transaction, lines 128-143, on the tables: reverse the row's effect
\* on the account and on the category, delete the row
ledger_after_void(accs, cats, txns, txn) ==
    LET current_balance == accs[txn.account_id].balance
        new_balance == void_new_balance(current_balance, txn.amount, txn.transaction_type)
    IN [accounts |-> AccountsWithBalance(accs, txn.account_id, new_balance),
        categories |->
            IF touches_activity(txn)
            THEN CategoriesWithActivity(cats, txn.category_id,
                    void_new_activity(cats[txn.category_id].activity_amount, txn.amount))
            ELSE cats,
        transactions |-> {t \in txns : t.id # txn.id}]

\* POST /transactions
create_transaction(user, data) ==
    /\ next_txn_id <= MaxTxns
    /\ LET txn == new_row(next_txn_id, user, data)
           after == ledger_after_post(accounts, categories, transactions, txn)
       IN /\ transactions' = after.transactions
          /\ accounts' = after.accounts
          /\ categories' = after.categories
          /\ next_txn_id' = next_txn_id + 1
          /\ last' = [op |-> "post", user |-> user, status |-> 201, id |-> txn.id]
    /\ UNCHANGED <<n_assign, n_amend, mv, other_state>>

\* the row after .update(data): the fields the patch sets replace the old ones
patched(old, data) ==
    [f \in DOMAIN old |-> IF f \in DOMAIN data THEN data[f] ELSE old[f]]

\* PATCH /transactions/{id}: look the row up for the caller (404 when it has
\* none), write the patched fields to it.  No account or category is read or
\* written.
update_transaction(user, transaction_id, data) ==
    /\ n_amend < MaxAmends
    /\ n_amend' = n_amend + 1
    /\ LET rows == TxnRows(transaction_id, user)
       IN IF rows = {}
          THEN /\ last' = [op |-> "amend", user |-> user, status |-> 404,
                           id |-> transaction_id]
               /\ UNCHANGED transactions
          ELSE LET old == CHOOSE t \in rows : TRUE
                   new == patched(old, data)
               IN /\ transactions' = (transactions \ {old}) \cup {new}
                  /\ last' = [op |-> "amend", user |-> user, status |-> 200,
                              id |-> transaction_id]
    /\ UNCHANGED <<accounts, categories, next_txn_id, n_assign, mv, other_state>>

\* DELETE /transactions/{id}: look the row up for the caller (404 when it has
\* none), reverse its effect, delete it
delete_transaction(user, transaction_id) ==
    /\ LET rows == TxnRows(transaction_id, user)
       IN IF rows = {}
          THEN /\ last' = [op |-> "void", user |-> user, status |-> 404,
                           id |-> transaction_id]
               /\ UNCHANGED <<accounts, categories, transactions>>
          ELSE LET txn == CHOOSE t \in rows : TRUE
                   after == ledger_after_void(accounts, categories, transactions, txn)
               IN /\ accounts' = after.accounts
                  /\ categories' = after.categories
                  /\ transactions' = after.transactions
                  /\ last' = [op |-> "void", user |-> user, status |-> 204,
                              id |-> transaction_id]
    /\ UNCHANGED <<next_txn_id, n_assign, n_amend, mv, other_state>>

\* request bodies the model draws from
TransactionCreates ==
    [account_id : PostAccounts, category_id : PostCategories,
     amount : Amounts, transaction_type : TransactionTypes]

\* model_dump(exclude_unset=True): a dict holding only the fields the request
\* sets; the model draws the patches of one field, one patch of all four, and
\* the patch that sets none of the modelled fields (a memo or payee change)
TransactionUpdates ==
    {<<>>}
    \cup {"account_id" :> a : a \in PatchAccounts}
    \cup {"category_id" :> c : c \in PatchCategories}
    \cup {"amount" :> m : m \in PatchAmounts}
    \cup {"transaction_type" :> t : t \in PatchTypes}
    \cup {("account_id" :> "a3") @@ ("category_id" :> "c2")
            @@ ("amount" :> 250) @@ ("transaction_type" :> "income")}

TxnIds == 1..MaxTxns

\* the post requests the model draws from: every body from the first user, an
\* expense of the first user with an amount that is not positive, and from the
\* second user an expense on the first user's account and category
PostRequests ==
    {<<"u1", data>> : data \in TransactionCreates}
    \cup {<<"u1", [account_id |-> "a1", category_id |-> NULL, amount |-> m,
                   transaction_type |-> "expense"]>> : m \in NonPositiveAmounts}
    \cup {<<"u2", [account_id |-> "a1", category_id |-> "c1", amount |-> 100,
                   transaction_type |-> "expense"]>>}

Post == \E r \in PostRequests : create_transaction(r[1], r[2])
Amend == \E user \in Users, id \in TxnIds, data \in TransactionUpdates :
            update_transaction(user, id, data)
Void == \E user \in Users, id \in TxnIds : delete_transaction(user, id)

----------------------------------------------------------------------------
(* Envelope allocator: services/budget_service.py, routers/budget.py,      *)
(* routers/categories.py                                                   *)

\* .eq("user_id", user).eq("is_active", True) on "accounts": the ids of the rows
ActiveAccountsOf(accs, user) ==
    {a \in DOMAIN accs : accs[a].user_id = user /\ accs[a].is_active}

\* .eq("user_id", user).eq("is_hidden", False) on "categories": the ids of the rows
VisibleCategoriesOf(cats, user) ==
    {c \in DOMAIN cats : cats[c].user_id = user /\ ~cats[c].is_hidden}

\* a mutant of get_to_be_budgeted: hidden categories are counted too
get_to_be_budgeted_mutant(accs, cats, user) ==
    LET total_balance ==
            SumOf(ActiveAccountsOf(accs, user), [a \in DOMAIN accs |-> accs[a].balance])
        owned == {c \in DOMAIN cats : cats[c].user_id = user}
        total_assigned == SumOf(owned, [c \in DOMAIN cats |-> cats[c].assigned_amount])
    IN total_balance - total_assigned

\* BudgetService.get_to_be_budgeted
get_to_be_budgeted(accs, cats, user) ==
    LET total_balance ==
            SumOf(ActiveAccountsOf(accs, user), [a \in DOMAIN accs |-> accs[a].balance])
        total_assigned ==
            SumOf(VisibleCategoriesOf(cats, user),
                  [c \in DOMAIN cats |-> cats[c].assigned_amount])
    IN total_balance - total_assigned

\* BudgetService.get_budget_summary: the dict it returns
get_budget_summary(accs, cats, user) ==
    LET to_be_budgeted == get_to_be_budgeted(accs, cats, user)
        total_balance ==
            SumOf(ActiveAccountsOf(accs, user), [a \in DOMAIN accs |-> accs[a].balance])
        total_assigned ==
            SumOf(VisibleCategoriesOf(cats, user),
                  [c \in DOMAIN cats |-> cats[c].assigned_amount])
        total_activity ==
            SumOf(VisibleCategoriesOf(cats, user),
                  [c \in DOMAIN cats |-> cats[c].activity_amount])
    IN [to_be_budgeted |-> to_be_budgeted,
        total_balance |-> total_balance,
        total_assigned |-> total_assigned,
        total_spent |-> total_activity]

\* GET /budget/summary
budget_summary(user) ==
    /\ last' = [op |-> "summary", user |-> user, status |-> 200,
                body |-> get_budget_summary(accounts, categories, user)]
    /\ UNCHANGED <<accounts, categories, transactions, next_txn_id, n_assign, n_amend, mv, other_state>>

\* "categories" after .update({"assigned_amount": v}).eq("id", id)
CategoriesWithAssigned(cats, id, v) == [cats EXCEPT ![id].assigned_amount = v]

\* a mutant of assign_new_assigned: the amount replaces the assigned amount
assign_new_assigned_mutant(current_assigned, amount) == amount

\* assign_to_category, line 120
assign_new_assigned(current_assigned, amount) == current_assigned + amount

\* PATCH /categories/{id}/assign
assign_to_category(user, category_id, amount) ==
    /\ n_assign < MaxAssigns
    /\ n_assign' = n_assign + 1
    /\ IF ~OwnedCategory(category_id, user)
       THEN /\ last' = [op |-> "assign", user |-> user, status |-> 404,
                        category_id |-> category_id, amount |-> amount]
            /\ UNCHANGED categories
       ELSE LET current_assigned == categories[category_id].assigned_amount
                new_assigned == assign_new_assigned(current_assigned, amount)
            IN /\ categories' = CategoriesWithAssigned(categories, category_id, new_assigned)
               /\ last' = [op |-> "assign", user |-> user, status |-> 200,
                           category_id |-> category_id, amount |-> amount]
    /\ UNCHANGED <<accounts, transactions, next_txn_id, n_amend, mv, other_state>>

\* routers/budget.py move_money, line 42
amount_not_positive(amount) == amount <= 0

\* routers/budget.py move_money, line 47
same_category(from_category_id, to_category_id) == from_category_id = to_category_id

\* a mutant of insufficient_funds: the comparison is turned around
insufficient_funds_mutant(from_assigned, amount) == amount < from_assigned

\* BudgetService.move_money, line 24
insufficient_funds(from_assigned, amount) == from_assigned < amount

\* BudgetService.move_money, line 26
new_from_assigned(from_assigned, amount) == from_assigned - amount

\* a mutant of new_to_assigned: the amount is taken from the target too
new_to_assigned_mutant(to_assigned, amount) == to_assigned - amount

\* BudgetService.move_money, lines 27-28
new_to_assigned(to_assigned, amount) == to_assigned + amount

\* the reason the request is refused with, or "ok": the router's checks
\* (routers/budget.py lines 42-51), then the service's
\* (BudgetService.move_money lines 17-25, a ValueError the router turns into 400)
move_refusal(cats, user, req) ==
    IF amount_not_positive(req.amount) THEN "Amount must be positive"
    ELSE IF same_category(req.from_category_id, req.to_category_id)
         THEN "Source and target categories must be different"
    ELSE IF ~(req.from_category_id \in DOMAIN cats
              /\ cats[req.from_category_id].user_id = user)
         THEN "Source category not found"
    ELSE IF ~(req.to_category_id \in DOMAIN cats
              /\ cats[req.to_category_id].user_id = user)
         THEN "Target category not found"
    ELSE IF insufficient_funds(cats[req.from_category_id].assigned_amount, req.amount)
         THEN "Insufficient funds in source category"
    ELSE "ok"

\* PATCH /budget/move_money served without interruption: the checks, the two
\* writes (source first, then target), the two re-reads, the response
move_money(user, req) ==
    /\ mv.pc = "idle"
    /\ LET refusal == move_refusal(categories, user, req)
       IN IF refusal # "ok"
          THEN /\ last' = [op |-> "move", user |-> user, status |-> 400,
                           req |-> req, detail |-> refusal]
               /\ UNCHANGED categories
          ELSE LET from_assigned == categories[req.from_category_id].assigned_amount
                   to_assigned == categories[req.to_category_id].assigned_amount
                   after_from == CategoriesWithAssigned(categories, req.from_category_id,
                                    new_from_assigned(from_assigned, req.amount))
                   after_to == CategoriesWithAssigned(after_from, req.to_category_id,
                                    new_to_assigned(to_assigned, req.amount))
               IN /\ categories' = after_to
                  /\ last' = [op |-> "move", user |-> user, status |-> 200,
                              req |-> req, detail |-> "ok"]
    /\ UNCHANGED <<accounts, transactions, next_txn_id, n_assign, n_amend, mv, other_state>>

\* DELETE /categories/{id}: hide the caller's category
delete_category(user, category_id) ==
    /\ IF ~OwnedCategory(category_id, user)
       THEN /\ last' = [op |-> "delete_category", user |-> user, status |-> 404,
                        id |-> category_id]
            /\ UNCHANGED categories
       ELSE /\ categories' = [categories EXCEPT ![category_id].is_hidden = TRUE]
            /\ last' = [op |-> "delete_category", user |-> user, status |-> 204,
                        id |-> category_id]
    /\ UNCHANGED <<accounts, transactions, next_txn_id, n_assign, n_amend, mv, other_state>>

\* PATCH /categories/{id} with {"is_hidden": h} (CategoryUpdate carries no
\* assigned_amount and no activity_amount)
update_category(user, category_id, is_hidden) ==
    /\ IF ~OwnedCategory(category_id, user)
       THEN /\ last' = [op |-> "update_category", user |-> user, status |-> 404,
                        id |-> category_id]
            /\ UNCHANGED categories
       ELSE /\ categories' = [categories EXCEPT ![category_id].is_hidden = is_hidden]
            /\ last' = [op |-> "update_category", user |-> user, status |-> 200,
                        id |-> category_id]
    /\ UNCHANGED <<accounts, transactions, next_txn_id, n_assign, n_amend, mv, other_state>>

\* GET /categories: the caller's visible categories, read in one query
list_categories(user) ==
    /\ last' = [op |-> "list_categories", user |-> user, status |-> 200,
                body |-> [c \in VisibleCategoriesOf(categories, user) |->
                            categories[c].assigned_amount]]
    /\ UNCHANGED <<accounts, categories, transactions, next_txn_id, n_assign, n_amend, mv, other_state>>

----------------------------------------------------------------------------
(* PATCH /budget/move_money one store access at a time: other requests are  *)
(* served between its accesses, and a write may fail (the store raises),    *)
(* which ends the request with a 500 and undoes nothing.                    *)

\* router checks, then BudgetService.move_money line 17: read the source
move_read_from(user, req) ==
    /\ mv.pc = "idle"
    /\ IF amount_not_positive(req.amount)
       THEN /\ last' = [op |-> "move", user |-> user, status |-> 400, req |-> req,
                        detail |-> "Amount must be positive"]
            /\ UNCHANGED mv
       ELSE IF same_category(req.from_category_id, req.to_category_id)
       THEN /\ last' = [op |-> "move", user |-> user, status |-> 400, req |-> req,
                        detail |-> "Source and target categories must be different"]
            /\ UNCHANGED mv
       ELSE IF ~OwnedCategory(req.from_category_id, user)
       THEN /\ last' = [op |-> "move", user |-> user, status |-> 400, req |-> req,
                        detail |-> "Source category not found"]
            /\ UNCHANGED mv
       ELSE /\ mv' = [pc |-> "read_to", user |-> user, req |-> req,
                      from_assigned |-> categories[req.from_category_id].assigned_amount,
                      to_assigned |-> 0]
            /\ UNCHANGED last
    /\ UNCHANGED <<accounts, categories, transactions, next_txn_id, n_assign, n_amend, other_state>>

\* BudgetService.move_money lines 20-28: read the target, check the funds
move_read_to ==
    /\ mv.pc = "read_to"
    /\ IF ~OwnedCategory(mv.req.to_category_id, mv.user)
       THEN /\ last' = [op |-> "move", user |-> mv.user, status |-> 400, req |-> mv.req,
                        detail |-> "Target category not found"]
            /\ mv' = Idle
       ELSE IF insufficient_funds(mv.from_assigned, mv.req.amount)
       THEN /\ last' = [op |-> "move", user |-> mv.user, status |-> 400, req |-> mv.req,
                        detail |-> "Insufficient funds in source category"]
            /\ mv' = Idle
       ELSE /\ mv' = [mv EXCEPT !.pc = "write_from",
                        !.to_assigned = categories[mv.req.to_category_id].assigned_amount]
            /\ UNCHANGED last
    /\ UNCHANGED <<accounts, categories, transactions, next_txn_id, n_assign, n_amend, other_state>>

\* BudgetService.move_money line 29: write the source
move_write_from ==
    /\ mv.pc = "write_from"
    /\ categories' = CategoriesWithAssigned(categories, mv.req.from_category_id,
                        new_from_assigned(mv.from_assigned, mv.req.amount))
    /\ mv' = [mv EXCEPT !.pc = "write_to"]
    /\ UNCHANGED <<accounts, transactions, next_txn_id, n_assign, n_amend, last, other_state>>

\* line 29 raises: nothing was written
move_write_from_fails ==
    /\ mv.pc = "write_from"
    /\ last' = [op |-> "move", user |-> mv.user, status |-> 500, req |-> mv.req,
                detail |-> "source write failed",
                from_assigned |-> mv.from_assigned, to_assigned |-> mv.to_assigned]
    /\ mv' = Idle
    /\ UNCHANGED <<accounts, categories, transactions, next_txn_id, n_assign, n_amend, other_state>>

\* BudgetService.move_money line 30: write the target
move_write_to ==
    /\ mv.pc = "write_to"
    /\ categories' = CategoriesWithAssigned(categories, mv.req.to_category_id,
                        new_to_assigned(mv.to_assigned, mv.req.amount))
    /\ mv' = [mv EXCEPT !.pc = "reread"]
    /\ UNCHANGED <<accounts, transactions, next_txn_id, n_assign, n_amend, last, other_state>>

\* line 30 raises: the source write of line 29 stays
move_write_to_fails ==
    /\ mv.pc = "write_to"
    /\ last' = [op |-> "move", user |-> mv.user, status |-> 500, req |-> mv.req,
                detail |-> "target write failed",
                from_assigned |-> mv.from_assigned, to_assigned |-> mv.to_assigned]
    /\ mv' = Idle
    /\ UNCHANGED <<accounts, categories, transactions, next_txn_id, n_assign, n_amend, other_state>>

\* BudgetService.move_money lines 31-33: re-read both rows and return them
move_return ==
    /\ mv.pc = "reread"
    /\ last' = [op |-> "move", user |-> mv.user, status |-> 200, req |-> mv.req,
                detail |-> "ok"]
    /\ mv' = Idle
    /\ UNCHANGED <<accounts, categories, transactions, next_txn_id, n_assign, n_amend, other_state>>

----------------------------------------------------------------------------
(* Accounts: routers/accounts.py *)

OwnedAccount(id, user) == id \in DOMAIN accounts /\ accounts[id].user_id = user

\* PATCH /accounts/{id}: write the fields the request sets (AccountUpdate
\* carries balance and is_active) to the caller's account
update_account(user, account_id, data) ==
    /\ IF ~OwnedAccount(account_id, user)
       THEN /\ last' = [op |-> "update_account", user |-> user, status |-> 404,
                        id |-> account_id]
            /\ UNCHANGED accounts
       ELSE /\ accounts' = [accounts EXCEPT ![account_id] =
                                [f \in DOMAIN @ |-> IF f \in DOMAIN data THEN data[f] ELSE @[f]]]
            /\ last' = [op |-> "update_account", user |-> user, status |-> 200,
                        id |-> account_id]
    /\ UNCHANGED <<categories, transactions, next_txn_id, n_assign, n_amend, mv, other_state>>

\* DELETE /accounts/{id}: deactivate the caller's account
delete_account(user, account_id) ==
    /\ IF ~OwnedAccount(account_id, user)
       THEN /\ last' = [op |-> "delete_account", user |-> user, status |-> 404,
                        id |-> account_id]
            /\ UNCHANGED accounts
       ELSE /\ accounts' = [accounts EXCEPT ![account_id].is_active = FALSE]
            /\ last' = [op |-> "delete_account", user |-> user, status |-> 204,
                        id |-> account_id]
    /\ UNCHANGED <<categories, transactions, next_txn_id, n_assign, n_amend, mv, other_state>>

----------------------------------------------------------------------------
(* The requests the model draws from. *)

AssignRequests ==
    {<<"u1", c, m>> : c \in {"c1", "c2"}, m \in AssignAmounts}
    \cup {<<"u2", "c3", 300>>, <<"u2", "c1", 300>>, <<"u1", MissingCategoryId, 300>>}

MoveMoneyRequests ==
    {<<"u1", [from_category_id |-> f, to_category_id |-> t, amount |-> m]>> :
        f \in {"c1", "c2"}, t \in {"c1", "c2"}, m \in MoveAmounts}
    \cup {<<"u1", [from_category_id |-> "c1", to_category_id |-> "c3", amount |-> 100]>>,
          <<"u2", [from_category_id |-> "c1", to_category_id |-> "c3", amount |-> 100]>>,
          <<"u1", [from_category_id |-> "c1", to_category_id |-> MissingCategoryId, amount |-> 100]>>,
          <<"u1", [from_category_id |-> MissingCategoryId, to_category_id |-> "c1", amount |-> 100]>>}

HideRequests == {<<"u1", "c2">>, <<"u2", "c2">>}
AccountRequests == {<<"u1", "a2">>, <<"u2", "a2">>}
AccountUpdates ==
    {"is_active" :> TRUE} \cup {"balance" :> b : b \in PatchBalances}

\* the one post request of the allocator's specification: an expense of the
\* first user on the account and the category whose flags the model changes
SpendRequests ==
    {<<"u1", [account_id |-> "a2", category_id |-> "c2", amount |-> 100,
              transaction_type |-> "expense"]>>}

Spend == \E r \in SpendRequests : create_transaction(r[1], r[2])
ListCategories == \E user \in Users : list_categories(user)
MoveReadFrom == \E r \in MoveMoneyRequests : move_read_from(r[1], r[2])
MoveReadTo == move_read_to
MoveWriteFrom == move_write_from
MoveWriteFromFails == move_write_from_fails
MoveWriteTo == move_write_to
MoveWriteToFails == move_write_to_fails
MoveReturn == move_return
Assign == \E r \in AssignRequests : assign_to_category(r[1], r[2], r[3])
Move == \E r \in MoveMoneyRequests : move_money(r[1], r[2])
Summary == \E user \in Users : budget_summary(user)
DeleteCategory == \E r \in HideRequests : delete_category(r[1], r[2])
UpdateCategory == \E r \in HideRequests, h \in BOOLEAN : update_category(r[1], r[2], h)
UpdateAccount == \E r \in AccountRequests, data \in AccountUpdates :
                    update_account(r[1], r[2], data)
DeleteAccount == \E r \in AccountRequests : delete_account(r[1], r[2])

----------------------------------------------------------------------------

Init ==
    /\ accounts = [a \in AccountIds |->
                     [user_id |-> AccountOwner[a], balance |-> OpeningBalance[a],
                      is_active |-> TRUE]]
    /\ categories = [c \in CategoryIds |->
                     [user_id |-> CategoryOwner[c], assigned_amount |-> 0,
                      activity_amount |-> 0, is_hidden |-> FALSE]]
    /\ transactions = {}
    /\ next_txn_id = 1
    /\ n_assign = 0
    /\ n_amend = 0
    /\ mv = Idle
    /\ subscriptions = {}
    /\ next_sub_id = 1
    /\ pending_transactions = {}
    /\ next_pending_id = 1
    /\ rq = [slot \in Slots |-> Idle]
    /\ n_fail = 0
    /\ last = [op |-> "none"]

\* the ledger's requests, each served without interruption
NextLedger == Post \/ Amend \/ Void

SpecLedger == Init /\ [][NextLedger]_vars

\* the requests of the allocator and of the accounts, and an expense posted
\* through the ledger, each served without interruption
Next ==
    \/ Spend
    \/ Assign
    \/ Move
    \/ Summary
    \/ DeleteCategory
    \/ UpdateCategory
    \/ UpdateAccount
    \/ DeleteAccount

Spec == Init /\ [][Next]_vars

\* a move served one store access at a time, between assigns and listings of
\* other requests
NextMove ==
    \/ Assign
    \/ ListCategories
    \/ MoveReadFrom
    \/ MoveReadTo
    \/ MoveWriteFrom
    \/ MoveWriteFromFails
    \/ MoveWriteTo
    \/ MoveWriteToFails
    \/ MoveReturn

SpecMove == Init /\ [][NextMove]_vars

----------------------------------------------------------------------------
(* Binary floating point.  The store returns a numeric column as a JSON     *)
(* number, which Python reads as a float; CategoryResponse and the          *)
(* subscription processor subtract and add these floats directly.  The      *)
(* operators below compute what Python's float arithmetic computes on       *)
(* amounts given in hundredths of the currency unit.                        *)

\* Python's float is IEEE-754 binary64: 53 significant bits, results rounded
\* to nearest, ties to even
MantissaBits == 53
\* big integers are sequences of limbs, least significant first, without a
\* zero limb at the top
LimbBits == 15
LimbBase == 2 ^ LimbBits

LimbAt(x, i) == IF i >= 1 /\ i <= Len(x) THEN x[i] ELSE 0

Trimmed(x) ==
    LET tops == {k \in 1..Len(x) : x[k] # 0 /\ \A j \in (k + 1)..Len(x) : x[j] = 0}
    IN IF tops = {} THEN <<>> ELSE SubSeq(x, 1, CHOOSE k \in tops : TRUE)

LimbsOf(n) ==
    Trimmed(<<n % LimbBase, (n \div LimbBase) % LimbBase, n \div (LimbBase * LimbBase)>>)

ShiftLeft(x, k) ==
    LET p == 2 ^ (k % LimbBits)
        y == [i \in 1..(Len(x) + 1) |->
                ((LimbAt(x, i) * p) % LimbBase) + ((LimbAt(x, i - 1) * p) \div LimbBase)]
    IN Trimmed([i \in 1..(k \div LimbBits) |-> 0] \o y)

ShiftRight(x, k) ==
    LET s == k % LimbBits
        z == SubSeq(x, (k \div LimbBits) + 1, Len(x))
        y == [i \in 1..Len(z) |->
                (z[i] \div (2 ^ s)) + ((LimbAt(z, i + 1) % (2 ^ s)) * (2 ^ (LimbBits - s)))]
    IN Trimmed(y)

BitLength(x) ==
    IF x = <<>> THEN 0
    ELSE (LimbBits * (Len(x) - 1))
            + (CHOOSE b \in 1..LimbBits : x[Len(x)] >= 2 ^ (b - 1) /\ x[Len(x)] < 2 ^ b)

BigLess(x, y) ==
    \/ Len(x) < Len(y)
    \/ /\ Len(x) = Len(y)
       /\ \E i \in 1..Len(x) : x[i] < y[i] /\ \A j \in (i + 1)..Len(x) : x[j] = y[j]

BigAdd(x, y) ==
    LET n == (IF Len(x) > Len(y) THEN Len(x) ELSE Len(y)) + 1
        carry(i) == \E j \in 1..(i - 1) :
                        /\ LimbAt(x, j) + LimbAt(y, j) >= LimbBase
                        /\ \A k \in (j + 1)..(i - 1) : LimbAt(x, k) + LimbAt(y, k) = LimbBase - 1
    IN Trimmed([i \in 1..n |->
            (LimbAt(x, i) + LimbAt(y, i) + (IF carry(i) THEN 1 ELSE 0)) % LimbBase])

\* x - y for x >= y
BigSub(x, y) ==
    LET borrow(i) == \E j \in 1..(i - 1) :
                        /\ LimbAt(x, j) < LimbAt(y, j)
                        /\ \A k \in (j + 1)..(i - 1) : LimbAt(x, k) = LimbAt(y, k)
    IN Trimmed([i \in 1..Len(x) |->
            (LimbBase + LimbAt(x, i) - LimbAt(y, i) - (IF borrow(i) THEN 1 ELSE 0)) % LimbBase])

RECURSIVE BigDivSmall(_, _)
\* quotient (untrimmed) and remainder of x by a small divisor d
BigDivSmall(x, d) ==
    IF x = <<>> THEN [q |-> <<>>, r |-> 0]
    ELSE LET hi == BigDivSmall(Tail(x), d)
             t == (hi.r * LimbBase) + x[1]
         IN [q |-> <<t \div d>> \o hi.q, r |-> t % d]

\* a float: sign s, significand m (a big integer of MantissaBits bits),
\* exponent e of the last significand bit; the value is s * m * 2^e
FloatZero == [s |-> 1, m |-> <<>>, e |-> 0]

\* the float nearest to s * (r + f) * 2^e, where f < 1 and inexact says f > 0
RoundToNearestEven(s, r, inexact, e) ==
    LET len == BitLength(r)
    IN IF len = 0 THEN FloatZero
       ELSE IF len <= MantissaBits
       THEN [s |-> s, m |-> ShiftLeft(r, MantissaBits - len), e |-> e - (MantissaBits - len)]
       ELSE LET t == len - MantissaBits
                m0 == ShiftRight(r, t)
                rem == BigSub(r, ShiftLeft(m0, t))
                half == ShiftLeft(<<1>>, t - 1)
                up == \/ BigLess(half, rem)
                      \/ (rem = half /\ (inexact \/ (m0[1] % 2) = 1))
                m1 == IF up THEN BigAdd(m0, <<1>>) ELSE m0
            IN IF BitLength(m1) > MantissaBits
               THEN [s |-> s, m |-> ShiftRight(m1, 1), e |-> e + t + 1]
               ELSE [s |-> s, m |-> m1, e |-> e + t]

\* float(n / 100): the float nearest to the decimal of n hundredths
float_of_cents(n) ==
    IF n = 0 THEN FloatZero
    ELSE LET a == IF n < 0 THEN 0 - n ELSE n
             below(l) == IF l >= 0 THEN a < 100 * (2 ^ l)
                         ELSE a < 100 /\ a * (2 ^ (0 - l)) < 100
             l == CHOOSE l \in (0 - 8)..24 : below(l) /\ ~below(l - 1)
             k == MantissaBits + 1 - l
             d == BigDivSmall(ShiftLeft(LimbsOf(a), k), 100)
         IN RoundToNearestEven(IF n < 0 THEN 0 - 1 ELSE 1, Trimmed(d.q), d.r # 0, 0 - k)

\* x + y
float_add(x, y) ==
    IF x.m = <<>> THEN y
    ELSE IF y.m = <<>> THEN x
    ELSE LET e == IF x.e < y.e THEN x.e ELSE y.e
             a == ShiftLeft(x.m, x.e - e)
             b == ShiftLeft(y.m, y.e - e)
         IN IF x.s = y.s THEN RoundToNearestEven(x.s, BigAdd(a, b), FALSE, e)
            ELSE IF a = b THEN FloatZero
            ELSE IF BigLess(a, b) THEN RoundToNearestEven(y.s, BigSub(b, a), FALSE, e)
            ELSE RoundToNearestEven(x.s, BigSub(a, b), FALSE, e)

\* x - y
float_sub(x, y) ==
    float_add(x, IF y.m = <<>> THEN y ELSE [y EXCEPT !.s = 0 - y.s])

----------------------------------------------------------------------------
(* Category responses: schemas/category.py.  In this specification the      *)
(* amounts are counted in hundredths of the currency unit.                  *)

\* CategoryResponse(**row), lines 62-67: the row read from the store holds
\* floats and no "available_amount" (the code never writes such a column), so
\* available_amount is the float difference assigned - activity; each float
\* field then becomes the Decimal of its shortest decimal form
CategoryResponse(row) ==
    LET assigned == float_of_cents(row.assigned_amount)
        activity == float_of_cents(row.activity_amount)
    IN [assigned_amount |-> assigned,
        activity_amount |-> activity,
        available_amount |-> float_sub(assigned, activity)]

\* GET /categories/{id}: the caller's category as a CategoryResponse, 404 when
\* the caller has none with this id
get_category(user, category_id) ==
    /\ IF ~OwnedCategory(category_id, user)
       THEN last' = [op |-> "get_category", user |-> user, status |-> 404,
                     id |-> category_id]
       ELSE last' = [op |-> "get_category", user |-> user, status |-> 200,
                     id |-> category_id,
                     body |-> CategoryResponse(categories[category_id])]
    /\ UNCHANGED <<accounts, categories, transactions, next_txn_id, n_assign, n_amend, mv, other_state>>

\* amounts in hundredths: 0.10, 0.30 and 1.00
HundredthAmounts == {10, 30, 100}

AssignHundredths == \E m \in HundredthAmounts : assign_to_category("u1", "c1", m)
SpendHundredths ==
    \E m \in HundredthAmounts, t \in {"expense", "income"} :
        create_transaction("u1", [account_id |-> "a1", category_id |-> "c1",
                                  amount |-> m, transaction_type |-> t])
GetCategory == \E user \in Users, c \in {"c1", "c3"} : get_category(user, c)

\* assigns and posts of amounts with hundredths, and reads of the category
NextResponse == AssignHundredths \/ SpendHundredths \/ GetCategory

SpecResponse == Init /\ [][NextResponse]_vars

----------------------------------------------------------------------------
(* The ledger one store access at a time: routers/transactions.py.  A        *)
(* handler holds no lock and opens no store transaction, so the accesses of  *)
(* two requests interleave, and an access may fail (the store raises),       *)
(* which ends the request with a 500 and undoes nothing.                     *)

\* what the step-wise ledger requests leave alone
ledger_frame == <<n_assign, n_amend, mv, subscriptions, next_sub_id,
                  pending_transactions, next_pending_id>>

\* create_transaction line 50: insert the row
post_insert(slot, user, data) ==
    /\ rq[slot].pc = "idle"
    /\ next_txn_id <= MaxTxns
    /\ LET txn == new_row(next_txn_id, user, data)
       IN /\ transactions' = transactions \cup {txn}
          /\ rq' = [rq EXCEPT ![slot] = [pc |-> "read_balance", op |-> "post",
                                         user |-> user, txn |-> txn]]
    /\ next_txn_id' = next_txn_id + 1
    /\ UNCHANGED <<accounts, categories, last, n_fail, ledger_frame>>

\* create_transaction lines 58-59: read the balance of the row's account
post_read_balance(slot) ==
    /\ rq[slot].pc = "read_balance" /\ rq[slot].op = "post"
    /\ rq' = [rq EXCEPT ![slot] =
                [pc |-> "write_balance", op |-> "post", user |-> @.user, txn |-> @.txn,
                 current_balance |-> accounts[@.txn.account_id].balance]]
    /\ UNCHANGED <<accounts, categories, transactions, next_txn_id, last, n_fail, ledger_frame>>

\* create_transaction lines 60-67: write the new balance; go on to the
\* category for an expense that carries one
post_write_balance(slot) ==
    /\ rq[slot].pc = "write_balance" /\ rq[slot].op = "post"
    /\ LET r == rq[slot]
       IN /\ accounts' = AccountsWithBalance(accounts, r.txn.account_id,
                            post_new_balance(r.current_balance, r.txn.amount,
                                             r.txn.transaction_type))
          /\ rq' = [rq EXCEPT ![slot].pc =
                        IF touches_activity(r.txn) THEN "read_activity" ELSE "return"]
    /\ UNCHANGED <<categories, transactions, next_txn_id, last, n_fail, ledger_frame>>

\* create_transaction lines 68-69: read the activity of the row's category
post_read_activity(slot) ==
    /\ rq[slot].pc = "read_activity" /\ rq[slot].op = "post"
    /\ rq' = [rq EXCEPT ![slot] =
                [pc |-> "write_activity", op |-> "post", user |-> @.user, txn |-> @.txn,
                 current_balance |-> @.current_balance,
                 current_activity |-> categories[@.txn.category_id].activity_amount]]
    /\ UNCHANGED <<accounts, categories, transactions, next_txn_id, last, n_fail, ledger_frame>>

\* create_transaction lines 70-71: write the new activity
post_write_activity(slot) ==
    /\ rq[slot].pc = "write_activity" /\ rq[slot].op = "post"
    /\ LET r == rq[slot]
       IN /\ categories' = CategoriesWithActivity(categories, r.txn.category_id,
                              post_new_activity(r.current_activity, r.txn.amount))
          /\ rq' = [rq EXCEPT ![slot].pc = "return"]
    /\ UNCHANGED <<accounts, transactions, next_txn_id, last, n_fail, ledger_frame>>

\* create_transaction line 72: answer 201 with the row
post_return(slot) ==
    /\ rq[slot].pc = "return" /\ rq[slot].op = "post"
    /\ last' = [op |-> "post", user |-> rq[slot].user, status |-> 201,
                id |-> rq[slot].txn.id]
    /\ rq' = [rq EXCEPT ![slot] = Idle]
    /\ UNCHANGED <<accounts, categories, transactions, next_txn_id, n_fail, ledger_frame>>

\* delete_transaction lines 122-127: look the row up for the caller, 404 when
\* the caller has none
void_lookup(slot, user, transaction_id) ==
    /\ rq[slot].pc = "idle"
    /\ LET rows == TxnRows(transaction_id, user)
       IN IF rows = {}
          THEN /\ last' = [op |-> "void", user |-> user, status |-> 404,
                           id |-> transaction_id]
               /\ UNCHANGED rq
          ELSE /\ rq' = [rq EXCEPT ![slot] =
                            [pc |-> "read_balance", op |-> "void", user |-> user,
                             txn |-> CHOOSE t \in rows : TRUE]]
               /\ UNCHANGED last
    /\ UNCHANGED <<accounts, categories, transactions, next_txn_id, n_fail, ledger_frame>>

\* delete_transaction lines 129-130: read the balance of the row's account
void_read_balance(slot) ==
    /\ rq[slot].pc = "read_balance" /\ rq[slot].op = "void"
    /\ rq' = [rq EXCEPT ![slot] =
                [pc |-> "write_balance", op |-> "void", user |-> @.user, txn |-> @.txn,
                 current_balance |-> accounts[@.txn.account_id].balance]]
    /\ UNCHANGED <<accounts, categories, transactions, next_txn_id, last, n_fail, ledger_frame>>

\* delete_transaction lines 131-138: write the reversed balance
void_write_balance(slot) ==
    /\ rq[slot].pc = "write_balance" /\ rq[slot].op = "void"
    /\ LET r == rq[slot]
       IN /\ accounts' = AccountsWithBalance(accounts, r.txn.account_id,
                            void_new_balance(r.current_balance, r.txn.amount,
                                             r.txn.transaction_type))
          /\ rq' = [rq EXCEPT ![slot].pc =
                        IF touches_activity(r.txn) THEN "read_activity" ELSE "delete"]
    /\ UNCHANGED <<categories, transactions, next_txn_id, last, n_fail, ledger_frame>>

\* delete_transaction lines 139-140: read the activity of the row's category
void_read_activity(slot) ==
    /\ rq[slot].pc = "read_activity" /\ rq[slot].op = "void"
    /\ rq' = [rq EXCEPT ![slot] =
                [pc |-> "write_activity", op |-> "void", user |-> @.user, txn |-> @.txn,
                 current_balance |-> @.current_balance,
                 current_activity |-> categories[@.txn.category_id].activity_amount]]
    /\ UNCHANGED <<accounts, categories, transactions, next_txn_id, last, n_fail, ledger_frame>>

\* delete_transaction lines 141-142: write the reversed activity
void_write_activity(slot) ==
    /\ rq[slot].pc = "write_activity" /\ rq[slot].op = "void"
    /\ LET r == rq[slot]
       IN /\ categories' = CategoriesWithActivity(categories, r.txn.category_id,
                              void_new_activity(r.current_activity, r.txn.amount))
          /\ rq' = [rq EXCEPT ![slot].pc = "delete"]
    /\ UNCHANGED <<accounts, transactions, next_txn_id, last, n_fail, ledger_frame>>

\* delete_transaction line 143: delete the row and answer 204
void_delete(slot) ==
    /\ rq[slot].pc = "delete" /\ rq[slot].op = "void"
    /\ transactions' = {t \in transactions : t.id # rq[slot].txn.id}
    /\ last' = [op |-> "void", user |-> rq[slot].user, status |-> 204,
                id |-> rq[slot].txn.id]
    /\ rq' = [rq EXCEPT ![slot] = Idle]
    /\ UNCHANGED <<accounts, categories, next_txn_id, n_fail, ledger_frame>>

\* the store access the request is about to make raises: neither handler
\* catches it, the request ends with a 500 and what it wrote stays
ledger_store_fails(slot) ==
    /\ rq[slot].pc \in {"read_balance", "write_balance", "read_activity",
                        "write_activity", "delete"}
    /\ n_fail < MaxFails
    /\ n_fail' = n_fail + 1
    /\ last' = [op |-> rq[slot].op, user |-> rq[slot].user, status |-> 500,
                id |-> rq[slot].txn.id]
    /\ rq' = [rq EXCEPT ![slot] = Idle]
    /\ UNCHANGED <<accounts, categories, transactions, next_txn_id, ledger_frame>>

\* the post of the step-wise specifications: an expense of 100 on the first
\* account with the first category
StepPostRequests ==
    {<<"u1", [account_id |-> "a1", category_id |-> "c1", amount |-> 100,
              transaction_type |-> "expense"]>>}

PostInsert == \E slot \in Slots, r \in StepPostRequests : post_insert(slot, r[1], r[2])
PostReadBalance == \E slot \in Slots : post_read_balance(slot)
PostWriteBalance == \E slot \in Slots : post_write_balance(slot)
PostReadActivity == \E slot \in Slots : post_read_activity(slot)
PostWriteActivity == \E slot \in Slots : post_write_activity(slot)
PostReturn == \E slot \in Slots : post_return(slot)
VoidLookup == \E slot \in Slots, id \in TxnIds : void_lookup(slot, "u1", id)
VoidReadBalance == \E slot \in Slots : void_read_balance(slot)
VoidWriteBalance == \E slot \in Slots : void_write_balance(slot)
VoidReadActivity == \E slot \in Slots : void_read_activity(slot)
VoidWriteActivity == \E slot \in Slots : void_write_activity(slot)
VoidDelete == \E slot \in Slots : void_delete(slot)
LedgerStoreFails == \E slot \in Slots : ledger_store_fails(slot)

\* posts and voids served at the same time, every store access succeeding
NextRace ==
    \/ PostInsert
    \/ PostReadBalance
    \/ PostWriteBalance
    \/ PostReadActivity
    \/ PostWriteActivity
    \/ PostReturn
    \/ VoidLookup
    \/ VoidReadBalance
    \/ VoidWriteBalance
    \/ VoidReadActivity
    \/ VoidWriteActivity
    \/ VoidDelete

SpecRace == Init /\ [][NextRace]_vars

\* the same requests over a store whose accesses may fail
NextFail == NextRace \/ LedgerStoreFails

SpecFail == Init /\ [][NextFail]_vars

----------------------------------------------------------------------------
(* Ingestion: routers/ingest.py and routers/ai.py.  The extractor           *)
(* (ai_service.parse_sms_transaction) is outside the model: its result is   *)
(* an input of the request.  The store's update_account_balance function    *)
(* adds p_amount to the balance of the account, or raises.                  *)

MaxPending == 2

\* what the extractor returns for a message (services/ai_service.py, lines
\* 77-88): is_transaction is set only with a positive amount
ParsedResults ==
    {[is_transaction |-> FALSE, amount |-> 0, transaction_type |-> "expense",
      category_id |-> NULL],
     [is_transaction |-> TRUE, amount |-> 100, transaction_type |-> "expense",
      category_id |-> NULL],
     [is_transaction |-> TRUE, amount |-> 100, transaction_type |-> "expense",
      category_id |-> "c2"],
     [is_transaction |-> TRUE, amount |-> 100, transaction_type |-> "income",
      category_id |-> NULL]}

PendingIds == 1..MaxPending

PendingRows(pending_id, user) ==
    {p \in pending_transactions : p.id = pending_id /\ p.user_id = user}

\* supabase.rpc("update_account_balance", {p_account_id, p_amount}) when it
\* does not raise
update_account_balance(accs, p_account_id, p_amount) ==
    IF p_account_id \in DOMAIN accs
    THEN AccountsWithBalance(accs, p_account_id, accs[p_account_id].balance + p_amount)
    ELSE accs

\* the payees the extractor returns: the name it gives a payee it could not
\* read, and the name of a shop
Payees == {"Unknown", "Nf"}

\* ingest_sms lines 39-42: for a payee other than "Unknown" the handler calls
\* _find_category_by_payee, whose first statement (line 268) is
\* ai_service.get_embedding(payee); AIService defines no get_embedding, so
\* the call raises AttributeError before the handler has written anything
find_category_by_payee_raises(payee) == payee # "Unknown"

\* POST /ingest/sms: the extractor's result becomes a pending item of the
\* caller, with one of the caller's active accounts as the suggestion
ingest_sms(user, parsed, payee, suggested) ==
    /\ IF ~parsed.is_transaction
       THEN /\ last' = [op |-> "ingest_sms", user |-> user, status |-> 422, id |-> 0]
            /\ UNCHANGED <<pending_transactions, next_pending_id>>
       ELSE IF find_category_by_payee_raises(payee)
       THEN /\ last' = [op |-> "ingest_sms", user |-> user, status |-> 500, id |-> 0]
            /\ UNCHANGED <<pending_transactions, next_pending_id>>
       ELSE /\ next_pending_id <= MaxPending
            /\ suggested \in (IF ActiveAccountsOf(accounts, user) = {} THEN {NULL}
                              ELSE ActiveAccountsOf(accounts, user))
            /\ pending_transactions' = pending_transactions \cup
                    {[id |-> next_pending_id, user_id |-> user,
                      parsed_amount |-> parsed.amount,
                      suggested_account_id |-> suggested,
                      status |-> "pending"]}
            /\ next_pending_id' = next_pending_id + 1
            /\ last' = [op |-> "ingest_sms", user |-> user, status |-> 201,
                        id |-> next_pending_id]
    /\ UNCHANGED <<accounts, categories, transactions, next_txn_id, n_assign, n_amend,
                   mv, subscriptions, next_sub_id, rq, n_fail>>

\* the amount approve_pending_transaction stores, line 189; a request
\* without an amount and a request with the amount 0 take the same branch,
\* and both carry 0 here
approve_amount(request, pending) ==
    IF request.amount # 0 THEN request.amount
    ELSE pending.parsed_amount

\* approve_pending_transaction lines 217-222: with a category in the request
\* the handler calls _update_payee_embedding, whose first statement (line 312,
\* outside its try) is ai_service.get_embedding(payee); AIService
\* (services/ai_service.py) defines no get_embedding, so the call raises
\* AttributeError and the request ends with a 500 before line 224
update_payee_embedding_raises(request) == request.category_id # NULL

\* POST /ingest/pending/{pending_id}/approve
approve_pending_transaction(user, pending_id, request) ==
    /\ IF PendingRows(pending_id, user) = {}
       THEN /\ last' = [op |-> "approve", user |-> user, status |-> 404, id |-> 0]
            /\ UNCHANGED <<accounts, categories, transactions, next_txn_id,
                           pending_transactions>>
       ELSE LET pending == CHOOSE p \in PendingRows(pending_id, user) : TRUE
            IN IF pending.status # "pending"
               THEN /\ last' = [op |-> "approve", user |-> user, status |-> 400,
                                id |-> 0]
                    /\ UNCHANGED <<accounts, categories, transactions, next_txn_id,
                                   pending_transactions>>
               ELSE LET amount == approve_amount(request, pending)
                        txn == [id |-> next_txn_id, user_id |-> user,
                                account_id |-> request.account_id,
                                category_id |-> request.category_id,
                                amount |-> amount,
                                transaction_type |-> "expense"]
                    IN /\ next_txn_id <= MaxTxns
                       /\ transactions' = transactions \cup {txn}
                       /\ next_txn_id' = next_txn_id + 1
                       /\ accounts' = AccountsWithBalance(accounts, request.account_id,
                                         accounts[request.account_id].balance - amount)
                       /\ categories' =
                            IF request.category_id # NULL
                            THEN CategoriesWithActivity(categories, request.category_id,
                                    categories[request.category_id].activity_amount + amount)
                            ELSE categories
                       /\ IF update_payee_embedding_raises(request)
                          THEN /\ UNCHANGED pending_transactions
                               /\ last' = [op |-> "approve", user |-> user,
                                           status |-> 500, id |-> 0]
                          ELSE /\ pending_transactions' =
                                    (pending_transactions \ {pending})
                                    \cup {[pending EXCEPT !.status = "approved"]}
                               /\ last' = [op |-> "approve", user |-> user,
                                           status |-> 200, id |-> txn.id]
    /\ UNCHANGED <<n_assign, n_amend, mv, subscriptions, next_sub_id, next_pending_id,
                   rq, n_fail>>

\* POST /ingest/pending/{pending_id}/reject
reject_pending_transaction(user, pending_id) ==
    /\ IF PendingRows(pending_id, user) = {}
       THEN /\ last' = [op |-> "reject", user |-> user, status |-> 404, id |-> 0]
            /\ UNCHANGED pending_transactions
       ELSE /\ pending_transactions' =
                 {IF p.id = pending_id THEN [p EXCEPT !.status = "rejected"] ELSE p :
                    p \in pending_transactions}
            /\ last' = [op |-> "reject", user |-> user, status |-> 200, id |-> 0]
    /\ UNCHANGED <<accounts, categories, transactions, next_txn_id, n_assign, n_amend,
                   mv, subscriptions, next_sub_id, next_pending_id, rq, n_fail>>

\* the tables after the insert of ai.py (lines 110-137 and 275-306): the
\* balance through update_account_balance unless the call raises, the
\* activity of an expense's category read as a float and written back
\* unless one of these accesses raises; both failures are caught and printed
sms_ledger_after_insert(accs, cats, txn, rpc_raises, cat_raises) ==
    [accounts |->
        IF rpc_raises THEN accs
        ELSE update_account_balance(accs, txn.account_id,
                IF txn.transaction_type = "expense" THEN 0 - txn.amount ELSE txn.amount),
     categories |->
        IF txn.category_id # NULL /\ txn.transaction_type = "expense" /\ ~cat_raises
        THEN IF txn.category_id \in DOMAIN cats
             THEN CategoriesWithActivity(cats, txn.category_id,
                     cats[txn.category_id].activity_amount + txn.amount)
             ELSE cats
        ELSE cats]

\* the number of the caught calls that raise
raised(rpc_raises, cat_raises) ==
    (IF rpc_raises THEN 1 ELSE 0) + (IF cat_raises THEN 1 ELSE 0)

\* POST /ai/create-from-sms
create_transaction_from_sms(user, request, parsed, rpc_raises, cat_raises) ==
    /\ IF ~parsed.is_transaction
       THEN /\ last' = [op |-> "create_from_sms", user |-> user, status |-> 200,
                        success |-> FALSE, id |-> 0]
            /\ UNCHANGED <<accounts, categories, transactions, next_txn_id, n_fail>>
       ELSE LET category_id == IF request.category_id # NULL THEN request.category_id
                               ELSE parsed.category_id
                txn == [id |-> next_txn_id, user_id |-> user,
                        account_id |-> request.account_id,
                        category_id |-> category_id,
                        amount |-> parsed.amount,
                        transaction_type |-> parsed.transaction_type]
                cat_step == category_id # NULL /\ parsed.transaction_type = "expense"
                after == sms_ledger_after_insert(accounts, categories, txn,
                                                 rpc_raises, cat_raises)
            IN /\ next_txn_id <= MaxTxns
               /\ cat_raises => cat_step
               /\ n_fail + raised(rpc_raises, cat_raises) <= MaxFails
               /\ n_fail' = n_fail + raised(rpc_raises, cat_raises)
               /\ transactions' = transactions \cup {txn}
               /\ next_txn_id' = next_txn_id + 1
               /\ accounts' = after.accounts
               /\ categories' = after.categories
               /\ last' = [op |-> "create_from_sms", user |-> user, status |-> 200,
                           success |-> TRUE, id |-> txn.id]
    /\ UNCHANGED <<n_assign, n_amend, mv, subscriptions, next_sub_id,
                   pending_transactions, next_pending_id, rq>>

\* auto_process_sms, lines 226-228: the accounts of the caller with the
\* highest balance (the store returns one of them)
primary_accounts(accs, user) ==
    {a \in DOMAIN accs :
        /\ accs[a].user_id = user
        /\ \A b \in DOMAIN accs : accs[b].user_id = user => accs[b].balance <= accs[a].balance}

\* POST /ai/auto-process-sms
auto_process_sms(user, parsed, primary_account, rpc_raises, cat_raises) ==
    /\ IF primary_accounts(accounts, user) = {}
       THEN /\ last' = [op |-> "auto_process_sms", user |-> user, status |-> 200,
                        success |-> FALSE, processed |-> FALSE, id |-> 0]
            /\ UNCHANGED <<accounts, categories, transactions, next_txn_id, n_fail>>
       ELSE /\ primary_account \in primary_accounts(accounts, user)
            /\ IF ~parsed.is_transaction \/ parsed.amount <= 0
               THEN /\ last' = [op |-> "auto_process_sms", user |-> user, status |-> 200,
                                success |-> TRUE, processed |-> FALSE, id |-> 0]
                    /\ UNCHANGED <<accounts, categories, transactions, next_txn_id,
                                   n_fail>>
               ELSE LET txn == [id |-> next_txn_id, user_id |-> user,
                                account_id |-> primary_account,
                                category_id |-> parsed.category_id,
                                amount |-> parsed.amount,
                                transaction_type |-> parsed.transaction_type]
                        cat_step == parsed.category_id # NULL
                                    /\ parsed.transaction_type = "expense"
                        after == sms_ledger_after_insert(accounts, categories, txn,
                                                         rpc_raises, cat_raises)
                    IN /\ next_txn_id <= MaxTxns
                       /\ cat_raises => cat_step
                       /\ n_fail + raised(rpc_raises, cat_raises) <= MaxFails
                       /\ n_fail' = n_fail + raised(rpc_raises, cat_raises)
                       /\ transactions' = transactions \cup {txn}
                       /\ next_txn_id' = next_txn_id + 1
                       /\ accounts' = after.accounts
                       /\ categories' = after.categories
                       /\ last' = [op |-> "auto_process_sms", user |-> user,
                                   status |-> 200, success |-> TRUE,
                                   processed |-> TRUE, id |-> txn.id]
    /\ UNCHANGED <<n_assign, n_amend, mv, subscriptions, next_sub_id,
                   pending_transactions, next_pending_id, rq>>

\* the approve requests the model draws from
ApproveRequests ==
    [account_id : {"a1"}, category_id : {NULL, "c1"}, amount : {0, 250}]

\* the create-from-sms requests the model draws from
CreateFromSmsRequests == [account_id : {"a1"}, category_id : {NULL, "c1"}]

IngestSms == \E parsed \in ParsedResults, payee \in Payees,
                suggested \in AccountIds \cup {NULL} :
                ingest_sms("u1", parsed, payee, suggested)
Approve == \E user \in Users, id \in PendingIds, request \in ApproveRequests :
                approve_pending_transaction(user, id, request)
Reject == \E user \in Users, id \in PendingIds : reject_pending_transaction(user, id)
CreateFromSms ==
    \E request \in CreateFromSmsRequests, parsed \in ParsedResults,
       rpc_raises \in BOOLEAN, cat_raises \in BOOLEAN :
        create_transaction_from_sms("u1", request, parsed, rpc_raises, cat_raises)
AutoProcessSms ==
    \E parsed \in ParsedResults, primary_account \in AccountIds,
       rpc_raises \in BOOLEAN, cat_raises \in BOOLEAN :
        auto_process_sms("u1", parsed, primary_account, rpc_raises, cat_raises)

\* the ingestion requests and the manual post, each served without
\* interruption
NextIngest == Spend \/ IngestSms \/ Approve \/ Reject \/ CreateFromSms \/ AutoProcessSms

SpecIngest == Init /\ [][NextIngest]_vars

----------------------------------------------------------------------------
(* Subscriptions: routers/subscriptions.py and                              *)
(* services/subscription_service.py.  A date is a record of year, month and *)
(* day, as Python's datetime.date.                                          *)

MaxSubs == 2

\* datetime.date: the calendar
IsLeap(year) == year % 4 = 0 /\ (year % 100 # 0 \/ year % 400 = 0)

DaysInMonth(year, month) ==
    IF month = 2 THEN (IF IsLeap(year) THEN 29 ELSE 28)
    ELSE IF month \in {4, 6, 9, 11} THEN 30
    ELSE 31

\* whether date(year, month, day) exists (otherwise date raises ValueError)
ValidDate(year, month, day) ==
    month \in 1..12 /\ day >= 1 /\ day <= DaysInMonth(year, month)

RECURSIVE DaysBeforeMonth(_, _)
\* the number of days of the months of a year before month m
DaysBeforeMonth(year, m) ==
    IF m = 1 THEN 0 ELSE DaysBeforeMonth(year, m - 1) + DaysInMonth(year, m - 1)

\* date.toordinal: the number of the day in the calendar, counted from
\* 0001-01-01; the difference of two dates in days is the difference of these
Ordinal(d) ==
    365 * (d.year - 1) + ((d.year - 1) \div 4) - ((d.year - 1) \div 100)
    + ((d.year - 1) \div 400) + DaysBeforeMonth(d.year, d.month) + d.day

\* d + timedelta(days=1)
NextDay(d) ==
    IF d.day < DaysInMonth(d.year, d.month) THEN [d EXCEPT !.day = d.day + 1]
    ELSE IF d.month < 12 THEN [year |-> d.year, month |-> d.month + 1, day |-> 1]
    ELSE [year |-> d.year + 1, month |-> 1, day |-> 1]

\* d - timedelta(days=1)
PrevDay(d) ==
    IF d.day > 1 THEN [d EXCEPT !.day = d.day - 1]
    ELSE IF d.month > 1
         THEN [year |-> d.year, month |-> d.month - 1,
               day |-> DaysInMonth(d.year, d.month - 1)]
    ELSE [year |-> d.year - 1, month |-> 12, day |-> 31]

\* d + timedelta(days=n): n times the next day, each day computed before the
\* following one is
RECURSIVE AddDays(_, _)
AddDays(d, n) ==
    IF n = 0 THEN d
    ELSE CHOOSE e \in {AddDays(next, n - 1) : next \in {NextDay(d)}} : TRUE

\* the order of dates (and of their ISO strings, which .lte compares)
DateLE(d, e) ==
    \/ d.year < e.year
    \/ d.year = e.year /\ d.month < e.month
    \/ d.year = e.year /\ d.month = e.month /\ d.day <= e.day

\* a mutant of calculate_next_due_date: a day the next month does not have
\* becomes the 28th
calculate_next_due_date_mutant(last_date, frequency) ==
    IF frequency = "weekly" THEN AddDays(last_date, 7)
    ELSE IF frequency = "monthly"
    THEN LET next_month == IF last_date.month + 1 > 12 THEN 1 ELSE last_date.month + 1
             next_year == IF last_date.month + 1 > 12 THEN last_date.year + 1
                          ELSE last_date.year
         IN IF ValidDate(next_year, next_month, last_date.day)
            THEN [year |-> next_year, month |-> next_month, day |-> last_date.day]
            ELSE [year |-> next_year, month |-> next_month, day |-> 28]
    ELSE IF frequency = "yearly"
    THEN IF ValidDate(last_date.year + 1, last_date.month, last_date.day)
         THEN [last_date EXCEPT !.year = last_date.year + 1]
         ELSE [year |-> last_date.year + 1, month |-> 2, day |-> 28]
    ELSE last_date

\* a mutant of calculate_next_due_date: a day the next month does not have
\* leaves the date as it is
calculate_next_due_date_stay_mutant(last_date, frequency) ==
    IF frequency = "weekly" THEN AddDays(last_date, 7)
    ELSE IF frequency = "monthly"
    THEN LET next_month == IF last_date.month + 1 > 12 THEN 1 ELSE last_date.month + 1
             next_year == IF last_date.month + 1 > 12 THEN last_date.year + 1
                          ELSE last_date.year
         IN IF ValidDate(next_year, next_month, last_date.day)
            THEN [year |-> next_year, month |-> next_month, day |-> last_date.day]
            ELSE last_date
    ELSE IF frequency = "yearly"
    THEN IF ValidDate(last_date.year + 1, last_date.month, last_date.day)
         THEN [last_date EXCEPT !.year = last_date.year + 1]
         ELSE [year |-> last_date.year + 1, month |-> 2, day |-> 28]
    ELSE last_date

\* SubscriptionService.calculate_next_due_date
calculate_next_due_date(last_date, frequency) ==
    IF frequency = "weekly" THEN AddDays(last_date, 7)
    ELSE IF frequency = "monthly"
    THEN LET next_month == IF last_date.month + 1 > 12 THEN 1 ELSE last_date.month + 1
             next_year == IF last_date.month + 1 > 12 THEN last_date.year + 1
                          ELSE last_date.year
         IN IF ValidDate(next_year, next_month, last_date.day)
            THEN [year |-> next_year, month |-> next_month, day |-> last_date.day]
            ELSE IF next_month = 12
                 THEN PrevDay([year |-> next_year + 1, month |-> 1, day |-> 1])
                 ELSE PrevDay([year |-> next_year, month |-> next_month + 1, day |-> 1])
    ELSE IF frequency = "yearly"
    THEN IF ValidDate(last_date.year + 1, last_date.month, last_date.day)
         THEN [last_date EXCEPT !.year = last_date.year + 1]
         ELSE [year |-> last_date.year + 1, month |-> 2, day |-> 28]
    ELSE last_date

\* date.today(): the model runs within one day
Today == [year |-> 2024, month |-> 2, day |-> 29]

\* an account id no row of "accounts" has
MissingAccountId == "a0"

SubIds == 1..MaxSubs

SubRows(subscription_id, user) ==
    {s \in subscriptions : s.id = subscription_id /\ s.user_id = user}

\* POST /subscriptions: the body is stored as it is, with the caller as user_id
create_subscription(user, subscription_data) ==
    /\ next_sub_id <= MaxSubs
    /\ subscriptions' = subscriptions \cup
          {[id |-> next_sub_id,
            user_id |-> user,
            estimated_amount |-> subscription_data.estimated_amount,
            next_due_date |-> subscription_data.next_due_date,
            frequency |-> subscription_data.frequency,
            category_id |-> subscription_data.category_id,
            account_id |-> subscription_data.account_id,
            is_active |-> subscription_data.is_active]}
    /\ next_sub_id' = next_sub_id + 1
    /\ last' = [op |-> "create_subscription", user |-> user, status |-> 201,
                id |-> next_sub_id]
    /\ UNCHANGED <<accounts, categories, transactions, next_txn_id, n_assign, n_amend,
                   mv, pending_transactions, next_pending_id, rq, n_fail>>

\* the rows with the next_due_date of one row replaced
SubscriptionsWithDue(subs, id, next_due) ==
    {IF s.id = id THEN [s EXCEPT !.next_due_date = next_due] ELSE s : s \in subs}

\* POST /subscriptions/{subscription_id}/advance
\* (SubscriptionService.advance_due_date)
advance_subscription(user, subscription_id) ==
    /\ IF SubRows(subscription_id, user) = {}
       THEN /\ last' = [op |-> "advance", user |-> user, status |-> 404,
                        id |-> subscription_id]
            /\ UNCHANGED subscriptions
       ELSE LET sub == CHOOSE s \in SubRows(subscription_id, user) : TRUE
                next_due == calculate_next_due_date(sub.next_due_date, sub.frequency)
            IN /\ subscriptions' = SubscriptionsWithDue(subscriptions, sub.id, next_due)
               /\ last' = [op |-> "advance", user |-> user, status |-> 200,
                           id |-> subscription_id]
    /\ UNCHANGED <<accounts, categories, transactions, next_txn_id, n_assign, n_amend,
                   mv, next_sub_id, pending_transactions, next_pending_id, rq, n_fail>>

\* a mutant of due_subscriptions: the is_active filter is left out
due_subscriptions_mutant(subs, user) ==
    {s \in subs : DateLE(s.next_due_date, Today) /\ s.user_id = user}

\* process_due_subscriptions, lines 267-274: the active subscriptions of the
\* user whose next_due_date is not after today
due_subscriptions(subs, user) ==
    {s \in subs : s.is_active /\ DateLE(s.next_due_date, Today) /\ s.user_id = user}

\* a mutant of no_account_id: a subscription with a category is processed
\* even without a linked account
no_account_id_mutant(sub) == sub.account_id = NULL /\ sub.category_id = NULL

\* _process_single_subscription, line 295: not sub.get("account_id")
no_account_id(sub) == sub.account_id = NULL

\* a mutant of process_single_subscription: the due date is advanced by two
\* periods
process_single_subscription_catch_up_mutant(sub, st) ==
    IF no_account_id(sub)
    THEN [st EXCEPT !.details =
            Append(@, [subscription_id |-> sub.id, status |-> "skipped",
                       reason |-> "no_account_id"])]
    ELSE LET amount == sub.estimated_amount
             txn == [id |-> st.next_txn_id,
                     user_id |-> sub.user_id,
                     account_id |-> sub.account_id,
                     category_id |-> sub.category_id,
                     amount |-> amount,
                     transaction_type |-> "expense",
                     transaction_date |-> sub.next_due_date]
             next_due == calculate_next_due_date(
                            calculate_next_due_date(sub.next_due_date, sub.frequency),
                            sub.frequency)
         IN [accounts |->
                IF sub.account_id \in DOMAIN st.accounts
                THEN AccountsWithBalance(st.accounts, sub.account_id,
                        st.accounts[sub.account_id].balance - amount)
                ELSE st.accounts,
             categories |->
                IF sub.category_id # NULL /\ sub.category_id \in DOMAIN st.categories
                THEN CategoriesWithActivity(st.categories, sub.category_id,
                        st.categories[sub.category_id].activity_amount + amount)
                ELSE st.categories,
             transactions |-> st.transactions \cup {txn},
             next_txn_id |-> st.next_txn_id + 1,
             subscriptions |-> SubscriptionsWithDue(st.subscriptions, sub.id, next_due),
             details |->
                Append(st.details,
                       [subscription_id |-> sub.id, status |-> "processed",
                        amount |-> amount, transaction_id |-> txn.id,
                        next_due_date |-> next_due])]

\* _process_single_subscription on the tables st, for the row sub as the
\* batch read it: the tables after it, with its result appended to details
process_single_subscription(sub, st) ==
    IF no_account_id(sub)
    THEN [st EXCEPT !.details =
            Append(@, [subscription_id |-> sub.id, status |-> "skipped",
                       reason |-> "no_account_id"])]
    ELSE LET amount == sub.estimated_amount
             txn == [id |-> st.next_txn_id,
                     user_id |-> sub.user_id,
                     account_id |-> sub.account_id,
                     category_id |-> sub.category_id,
                     amount |-> amount,
                     transaction_type |-> "expense",
                     transaction_date |-> sub.next_due_date]
             next_due == calculate_next_due_date(sub.next_due_date, sub.frequency)
         IN [accounts |->
                IF sub.account_id \in DOMAIN st.accounts
                THEN AccountsWithBalance(st.accounts, sub.account_id,
                        st.accounts[sub.account_id].balance - amount)
                ELSE st.accounts,
             categories |->
                IF sub.category_id # NULL /\ sub.category_id \in DOMAIN st.categories
                THEN CategoriesWithActivity(st.categories, sub.category_id,
                        st.categories[sub.category_id].activity_amount + amount)
                ELSE st.categories,
             transactions |-> st.transactions \cup {txn},
             next_txn_id |-> st.next_txn_id + 1,
             subscriptions |-> SubscriptionsWithDue(st.subscriptions, sub.id, next_due),
             details |->
                Append(st.details,
                       [subscription_id |-> sub.id, status |-> "processed",
                        amount |-> amount, transaction_id |-> txn.id,
                        next_due_date |-> next_due])]

\* process_due_subscriptions, lines 281-285: the loop over the rows read
RECURSIVE process_rows(_, _)
process_rows(rows, st) ==
    IF rows = <<>> THEN st
    ELSE process_rows(Tail(rows), process_single_subscription(Head(rows), st))

\* the orders in which the store can return a set of rows
OrderingsOf(S) ==
    {seq \in [1..Cardinality(S) -> S] : \A i, j \in 1..Cardinality(S) :
        i # j => seq[i] # seq[j]}

\* POST /subscriptions/process-due
process_due_subscriptions(user, rows) ==
    /\ rows \in OrderingsOf(due_subscriptions(subscriptions, user))
    /\ LET st == process_rows(rows,
                    [accounts |-> accounts, categories |-> categories,
                     transactions |-> transactions, next_txn_id |-> next_txn_id,
                     subscriptions |-> subscriptions, details |-> <<>>])
       IN /\ st.next_txn_id <= MaxTxns + 1
          /\ accounts' = st.accounts
          /\ categories' = st.categories
          /\ transactions' = st.transactions
          /\ next_txn_id' = st.next_txn_id
          /\ subscriptions' = st.subscriptions
          /\ last' = [op |-> "process_due", user |-> user, status |-> 200,
                      details |-> st.details]
    /\ UNCHANGED <<n_assign, n_amend, mv, next_sub_id, pending_transactions,
                   next_pending_id, rq, n_fail>>

\* the bodies of POST /subscriptions the model draws from: due at the end of
\* a month, on a leap day, in a week that ends in the next month, and after
\* today; without a linked account, with an account that exists and with an
\* account id no account has; active, and one that is not
SubscriptionCreates ==
    {[estimated_amount |-> 100, next_due_date |-> [year |-> 2024, month |-> b[1], day |-> b[2]],
      frequency |-> b[3], account_id |-> b[4], category_id |-> b[5], is_active |-> b[6]] :
        b \in {<<1, 31, "monthly", "a1", "c1", TRUE>>,
               <<1, 31, "monthly", "a1", "c1", FALSE>>,
               <<1, 31, "monthly", NULL, "c1", TRUE>>,
               <<2, 29, "yearly", "a1", NULL, TRUE>>,
               <<2, 29, "yearly", NULL, NULL, TRUE>>,
               <<2, 25, "weekly", MissingAccountId, NULL, TRUE>>,
               <<2, 25, "weekly", "a1", "c1", TRUE>>,
               <<3, 15, "monthly", "a1", NULL, TRUE>>,
               <<3, 15, "monthly", NULL, NULL, TRUE>>}}

\* the create requests the model draws from: every body from the first user,
\* and from the second user a due subscription on that user's account
SubscriptionRequests ==
    {<<"u1", data>> : data \in SubscriptionCreates}
    \cup {<<"u2", [estimated_amount |-> 100,
                   next_due_date |-> [year |-> 2024, month |-> 2, day |-> 25],
                   frequency |-> "weekly", account_id |-> "a3", category_id |-> "c3",
                   is_active |-> TRUE]>>}

CreateSubscription ==
    \E r \in SubscriptionRequests : create_subscription(r[1], r[2])
\* the model advances a subscription by hand only while it is due, so that
\* the dates stay within a year of today
AdvanceSubscription ==
    \E user \in Users, id \in SubIds :
        /\ \A s \in subscriptions : s.id = id => DateLE(s.next_due_date, Today)
        /\ advance_subscription(user, id)
ProcessDue ==
    \E user \in Users, rows \in UNION {OrderingsOf(S) : S \in SUBSET subscriptions} :
        process_due_subscriptions(user, rows)

\* the subscription requests, each served without interruption
NextSubs == CreateSubscription \/ AdvanceSubscription \/ ProcessDue

SpecSubs == Init /\ [][NextSubs]_vars

----------------------------------------------------------------------------
(* process-due one store access at a time:                                  *)
(* services/subscription_service.py.  A run holds the rows it read at its   *)
(* start; between its store accesses another run is served, and an access   *)
(* may fail (the store raises), which _process_single_subscription catches. *)

\* what the step-wise process-due runs leave alone
due_frame == <<n_assign, n_amend, mv, next_sub_id, pending_transactions, next_pending_id>>

\* the store accesses of _process_single_subscription, in the order of the code
DueStorePcs == {"insert", "read_balance", "write_balance", "read_activity",
                "write_activity", "write_due"}

\* a mutant of error_result: the failure is reported as a skip
error_result_mutant(sub) ==
    [subscription_id |-> sub.id, status |-> "skipped", reason |-> "no_account_id"]

\* _process_single_subscription, lines 372-378: the result of a caught failure
error_result(sub) ==
    [subscription_id |-> sub.id, status |-> "error", reason |-> "store_error"]

\* a mutant of rows_after_item: the rows after the current one are dropped
rows_after_item_mutant(rows) == <<>>

\* process_due_subscriptions, lines 281-284: the loop goes on with the next row
rows_after_item(rows) == Tail(rows)

\* the loop of process_due_subscriptions up to its next store access: the
\* rows without an account are skipped (lines 295-301)
RECURSIVE skip_rows(_, _)
skip_rows(rows, details) ==
    IF rows = <<>> THEN [rows |-> rows, details |-> details, pc |-> "return"]
    ELSE IF no_account_id(Head(rows))
    THEN skip_rows(rows_after_item(rows),
                   Append(details, [subscription_id |-> Head(rows).id,
                                    status |-> "skipped", reason |-> "no_account_id"]))
    ELSE [rows |-> rows, details |-> details, pc |-> "insert"]

\* the run after the current row got its result
run_after_item(run, result) ==
    LET nxt == skip_rows(rows_after_item(run.rows), Append(run.details, result))
    IN [run EXCEPT !.rows = nxt.rows, !.details = nxt.details, !.pc = nxt.pc]

\* the store access after the account's: the category's, when the row has one
pc_after_account(sub) ==
    IF sub.category_id # NULL THEN "read_activity" ELSE "write_due"

\* process_due_subscriptions, lines 262-279: the query, and [] when no row is due
due_query(slot, user, rows) ==
    /\ rq[slot].pc = "idle"
    /\ rows \in OrderingsOf(due_subscriptions(subscriptions, user))
    /\ IF rows = <<>>
       THEN /\ last' = [op |-> "process_due", user |-> user, status |-> 200,
                        details |-> <<>>]
            /\ UNCHANGED rq
       ELSE LET nxt == skip_rows(rows, <<>>)
            IN /\ rq' = [rq EXCEPT ![slot] =
                            [pc |-> nxt.pc, op |-> "process_due", user |-> user,
                             due |-> rows, rows |-> nxt.rows, details |-> nxt.details,
                             txn_id |-> 0, current |-> 0]]
               /\ UNCHANGED last
    /\ UNCHANGED <<accounts, categories, transactions, next_txn_id, subscriptions,
                   n_fail, due_frame>>

\* _process_single_subscription, lines 304-319: insert the transaction
due_insert(slot) ==
    /\ rq[slot].pc = "insert" /\ rq[slot].op = "process_due"
    /\ next_txn_id <= MaxTxns
    /\ LET sub == Head(rq[slot].rows)
       IN transactions' = transactions \cup
             {[id |-> next_txn_id,
               user_id |-> sub.user_id,
               account_id |-> sub.account_id,
               category_id |-> sub.category_id,
               amount |-> sub.estimated_amount,
               transaction_type |-> "expense",
               transaction_date |-> sub.next_due_date]}
    /\ next_txn_id' = next_txn_id + 1
    /\ rq' = [rq EXCEPT ![slot].pc = "read_balance", ![slot].txn_id = next_txn_id]
    /\ UNCHANGED <<accounts, categories, subscriptions, last, n_fail, due_frame>>

\* lines 330-334: read the balance of the linked account
due_read_balance(slot) ==
    /\ rq[slot].pc = "read_balance" /\ rq[slot].op = "process_due"
    /\ LET sub == Head(rq[slot].rows)
       IN rq' = IF sub.account_id \in DOMAIN accounts
                THEN [rq EXCEPT ![slot].pc = "write_balance",
                                ![slot].current = accounts[sub.account_id].balance]
                ELSE [rq EXCEPT ![slot].pc = pc_after_account(sub)]
    /\ UNCHANGED <<accounts, categories, transactions, next_txn_id, subscriptions, last,
                   n_fail, due_frame>>

\* lines 335-339: write the balance less the amount
due_write_balance(slot) ==
    /\ rq[slot].pc = "write_balance" /\ rq[slot].op = "process_due"
    /\ LET sub == Head(rq[slot].rows)
       IN /\ accounts' = AccountsWithBalance(accounts, sub.account_id,
                            rq[slot].current - sub.estimated_amount)
          /\ rq' = [rq EXCEPT ![slot].pc = pc_after_account(sub)]
    /\ UNCHANGED <<categories, transactions, next_txn_id, subscriptions, last, n_fail,
                   due_frame>>

\* lines 342-347: read the activity of the category
due_read_activity(slot) ==
    /\ rq[slot].pc = "read_activity" /\ rq[slot].op = "process_due"
    /\ LET sub == Head(rq[slot].rows)
       IN rq' = IF sub.category_id \in DOMAIN categories
                THEN [rq EXCEPT ![slot].pc = "write_activity",
                                ![slot].current = categories[sub.category_id].activity_amount]
                ELSE [rq EXCEPT ![slot].pc = "write_due"]
    /\ UNCHANGED <<accounts, categories, transactions, next_txn_id, subscriptions, last,
                   n_fail, due_frame>>

\* lines 348-352: write the activity plus the amount
due_write_activity(slot) ==
    /\ rq[slot].pc = "write_activity" /\ rq[slot].op = "process_due"
    /\ LET sub == Head(rq[slot].rows)
       IN /\ categories' = CategoriesWithActivity(categories, sub.category_id,
                              rq[slot].current + sub.estimated_amount)
          /\ rq' = [rq EXCEPT ![slot].pc = "write_due"]
    /\ UNCHANGED <<accounts, transactions, next_txn_id, subscriptions, last, n_fail,
                   due_frame>>

\* lines 355-370: write the next due date of the row as the run read it, and
\* the processed result
due_write_due(slot) ==
    /\ rq[slot].pc = "write_due" /\ rq[slot].op = "process_due"
    /\ LET sub == Head(rq[slot].rows)
           next_due == calculate_next_due_date(sub.next_due_date, sub.frequency)
       IN /\ subscriptions' = SubscriptionsWithDue(subscriptions, sub.id, next_due)
          /\ rq' = [rq EXCEPT ![slot] =
                      run_after_item(rq[slot],
                          [subscription_id |-> sub.id, status |-> "processed",
                           amount |-> sub.estimated_amount,
                           transaction_id |-> rq[slot].txn_id,
                           next_due_date |-> next_due])]
    /\ UNCHANGED <<accounts, categories, transactions, next_txn_id, last, n_fail,
                   due_frame>>

\* lines 372-378: a store access of the current row raises; the failure is
\* caught, the row gets the error result and the loop goes on
due_store_fails(slot) ==
    /\ rq[slot].pc \in DueStorePcs /\ rq[slot].op = "process_due"
    /\ n_fail < MaxFails
    /\ n_fail' = n_fail + 1
    /\ rq' = [rq EXCEPT ![slot] = run_after_item(rq[slot], error_result(Head(rq[slot].rows)))]
    /\ UNCHANGED <<accounts, categories, transactions, next_txn_id, subscriptions, last,
                   due_frame>>

\* process_due_subscriptions, line 287, and the router's response
due_return(slot) ==
    /\ rq[slot].pc = "return" /\ rq[slot].op = "process_due"
    /\ last' = [op |-> "process_due", user |-> rq[slot].user, status |-> 200,
                details |-> rq[slot].details, due |-> rq[slot].due]
    /\ rq' = [rq EXCEPT ![slot] = Idle]
    /\ UNCHANGED <<accounts, categories, transactions, next_txn_id, subscriptions,
                   n_fail, due_frame>>

\* the bodies of POST /subscriptions of the step-wise specification: a
\* monthly subscription on the first account with the first category, and
\* a yearly one without a linked account
StepSubscriptionCreates ==
    {b \in SubscriptionCreates :
        /\ b.is_active
        /\ \/ b.frequency = "monthly" /\ b.account_id = "a1" /\ b.category_id = "c1"
           \/ b.frequency = "yearly" /\ b.account_id = NULL}

StepCreateSubscription ==
    \E data \in StepSubscriptionCreates : create_subscription("u1", data)
DueQuery ==
    \E slot \in Slots, rows \in UNION {OrderingsOf(S) : S \in SUBSET subscriptions} :
        due_query(slot, "u1", rows)
DueInsert == \E slot \in Slots : due_insert(slot)
DueReadBalance == \E slot \in Slots : due_read_balance(slot)
DueWriteBalance == \E slot \in Slots : due_write_balance(slot)
DueReadActivity == \E slot \in Slots : due_read_activity(slot)
DueWriteActivity == \E slot \in Slots : due_write_activity(slot)
DueWriteDue == \E slot \in Slots : due_write_due(slot)
DueStoreFails == \E slot \in Slots : due_store_fails(slot)
DueReturn == \E slot \in Slots : due_return(slot)

\* process-due runs served at the same time, with store failures
NextDue ==
    \/ StepCreateSubscription
    \/ DueQuery
    \/ DueInsert
    \/ DueReadBalance
    \/ DueWriteBalance
    \/ DueReadActivity
    \/ DueWriteActivity
    \/ DueWriteDue
    \/ DueStoreFails
    \/ DueReturn

SpecDue == Init /\ [][NextDue]_vars

----------------------------------------------------------------------------
(* calculate_next_due_date over the calendar: one subscription is created   *)
(* with a date of the years below and advanced once.                        *)

\* the years the dates are drawn from: a common year, a leap year, and a
\* year divisible by 100 that is not a leap year
DateYears == {2023, 2024, 2100}

\* every date of these years
Dates ==
    {x \in [year : DateYears, month : 1..12, day : 1..31] :
        ValidDate(x.year, x.month, x.day)}

Frequencies == {"weekly", "monthly", "yearly"}

DatedCreates ==
    [estimated_amount : {100}, next_due_date : Dates, frequency : Frequencies,
     account_id : {NULL}, category_id : {NULL}, is_active : {TRUE}]

\* one subscription is created
CreateDated ==
    /\ subscriptions = {}
    /\ \E data \in DatedCreates : create_subscription("u1", data)

\* and advanced once
AdvanceDated ==
    /\ last.op = "create_subscription"
    /\ advance_subscription("u1", last.id)

NextDates == CreateDated \/ AdvanceDated

SpecDates == Init /\ [][NextDates]_vars

----------------------------------------------------------------------------
(* Float products, quotients and square roots, for the statistics the       *)
(* subscription detector computes.                                          *)

BigLessEq(x, y) == x = y \/ BigLess(x, y)

RECURSIVE MulCarry(_, _, _)
\* x * d + c, for a limb d and a carry c
MulCarry(x, d, c) ==
    IF x = <<>> THEN (IF c = 0 THEN <<>> ELSE <<c>>)
    ELSE LET t == (x[1] * d) + c
         IN <<t % LimbBase>> \o MulCarry(Tail(x), d, t \div LimbBase)

\* x * d, for a limb d
BigMulSmall(x, d) == Trimmed(MulCarry(x, d, 0))

RECURSIVE BigMul(_, _)
BigMul(x, y) ==
    IF y = <<>> THEN <<>>
    ELSE BigAdd(BigMulSmall(x, y[1]), ShiftLeft(BigMul(x, Tail(y)), LimbBits))

\* the value of a big integer that fits a machine integer
BigToInt(x) == LimbAt(x, 1) + (LimbAt(x, 2) * LimbBase) + (LimbAt(x, 3) * LimbBase * LimbBase)

\* the quotient of t by y # 0 when it is a limb (t < y * LimbBase): the
\* greatest d with y * d <= t, which is at most 1 above and 6 below the
\* quotient of the leading bits of t and y
QuotientLimb(t, y) ==
    LET sh == IF BitLength(y) > LimbBits THEN BitLength(y) - LimbBits ELSE 0
        est == BigToInt(ShiftRight(t, sh)) \div BigToInt(ShiftRight(y, sh))
        fits(d) == d <= 0 \/ (d < LimbBase /\ BigLessEq(BigMulSmall(y, d), t))
        k == CHOOSE k \in 0..7 : fits(est + 1 - k)
    IN IF est + 1 - k < 0 THEN 0 ELSE est + 1 - k

\* one step of the long division by y: the quotient and the remainder so
\* far, and the next limb of the dividend
DivStep(hi, limb, y) ==
    IF hi.r = <<>> /\ limb = 0 THEN [q |-> <<0>> \o hi.q, r |-> <<>>]
    ELSE LET t == Trimmed(<<limb>> \o hi.r)
             d == QuotientLimb(t, y)
         IN [q |-> <<d>> \o hi.q, r |-> BigSub(t, BigMulSmall(y, d))]

RECURSIVE BigDivMod(_, _)
\* quotient (untrimmed) and remainder of x by y # 0
BigDivMod(x, y) ==
    IF x = <<>> THEN [q |-> <<>>, r |-> <<>>]
    ELSE DivStep(BigDivMod(Tail(x), y), x[1], y)

RECURSIVE NewtonRoot(_, _)
\* the integer square root of n, from an x that is not below it: x is
\* replaced by the mean of x and n / x as long as that is smaller
NewtonRoot(n, x) ==
    LET y == ShiftRight(BigAdd(x, Trimmed(BigDivMod(n, x).q)), 1)
    IN IF BigLess(y, x) THEN NewtonRoot(n, y) ELSE x

\* the integer square root of an integer below 2^30
IntIsqrt(n) ==
    LET a == CHOOSE a \in 0..255 :
                (a * 128) * (a * 128) <= n /\ n < ((a + 1) * 128) * ((a + 1) * 128)
        b == CHOOSE b \in 0..127 :
                /\ ((a * 128) + b) * ((a * 128) + b) <= n
                /\ n < ((a * 128) + b + 1) * ((a * 128) + b + 1)
    IN (a * 128) + b

\* the integer square root of n: Newton's iteration from the root of the
\* leading bits of n, rounded up
BigIsqrt(n) ==
    IF n = <<>> THEN <<>>
    ELSE LET len == BitLength(n)
             sh == IF len <= 30 THEN 0 ELSE 2 * ((len - 29) \div 2)
             top == IntIsqrt(BigToInt(ShiftRight(n, sh))) + 1
         IN NewtonRoot(n, ShiftLeft(LimbsOf(top), sh \div 2))

\* the bits a quotient is computed with beyond the binary point
QuotientBits == 70

\* float(p / q) for integers p >= 0 and 0 < q < 2^16, with sign s: the float
\* nearest to the fraction
float_of_ratio(s, p, q) ==
    IF p = 0 THEN FloatZero
    ELSE LET d == BigDivSmall(ShiftLeft(LimbsOf(p), QuotientBits), q)
         IN RoundToNearestEven(s, Trimmed(d.q), d.r # 0, 0 - QuotientBits)

float_of_int(n) == float_of_ratio(IF n < 0 THEN 0 - 1 ELSE 1, IF n < 0 THEN 0 - n ELSE n, 1)

\* the float literals 1, 2 and 0.5
FloatOne == float_of_int(1)
FloatTwo == float_of_int(2)
FloatHalf == float_of_ratio(1, 5, 10)

\* x * y
float_mul(x, y) ==
    IF x.m = <<>> \/ y.m = <<>> THEN FloatZero
    ELSE RoundToNearestEven(x.s * y.s, BigMul(x.m, y.m), FALSE, x.e + y.e)

\* x / y for y # 0: the float nearest to the quotient of the significands;
\* a divisor whose significand is a limb followed by zeros is divided by as
\* that limb
float_div(x, y) ==
    IF x.m = <<>> THEN FloatZero
    ELSE LET z == MantissaBits - LimbBits
             top == ShiftRight(y.m, z)
         IN IF ShiftLeft(top, z) = y.m
            THEN LET d == BigDivSmall(ShiftLeft(x.m, QuotientBits), BigToInt(top))
                 IN RoundToNearestEven(x.s * y.s, Trimmed(d.q), d.r # 0,
                                       x.e - QuotientBits - (y.e + z))
            ELSE LET d == BigDivMod(ShiftLeft(x.m, QuotientBits), y.m)
                 IN RoundToNearestEven(x.s * y.s, Trimmed(d.q), d.r # <<>>,
                                       x.e - QuotientBits - y.e)

\* the float nearest to the square root of the fraction p / q, p >= 0
float_sqrt_of_ratio(p, q) ==
    IF p = 0 THEN FloatZero
    ELSE LET d == BigDivSmall(ShiftLeft(LimbsOf(p), 2 * QuotientBits), q)
             n == Trimmed(d.q)
             root == BigIsqrt(n)
         IN RoundToNearestEven(1, root, d.r # 0 \/ BigMul(root, root) # n,
                               0 - QuotientBits)

\* x < y: by sign, then by exponent and significand (a significand that is
\* not zero has MantissaBits bits)
float_less(x, y) ==
    LET negative(v) == v.m # <<>> /\ v.s < 0
        smaller(a, b) ==
            /\ b.m # <<>>
            /\ (a.m = <<>> \/ a.e < b.e \/ (a.e = b.e /\ BigLess(a.m, b.m)))
    IN IF negative(x) THEN ~negative(y) \/ smaller(y, x)
       ELSE ~negative(y) /\ smaller(x, y)

\* x <= y
float_le(x, y) == ~float_less(y, x)

\* max(0, x)
float_max0(x) == IF x.s < 0 THEN FloatZero ELSE x

\* round(x, 2) in hundredths: the decimal of two places nearest to the value
\* of the float, a tie going to the even digit; the float round returns is
\* float_of_cents of it
round_2(x) ==
    IF x.m = <<>> THEN 0
    ELSE LET X == BigMulSmall(x.m, 100)
             t == 0 - x.e
             h0 == ShiftRight(X, t)
             rem == BigSub(X, ShiftLeft(h0, t))
             half == ShiftLeft(<<1>>, t - 1)
             up == BigLess(half, rem) \/ (rem = half /\ (LimbAt(h0, 1) % 2) = 1)
         IN x.s * (BigToInt(h0) + (IF up THEN 1 ELSE 0))

----------------------------------------------------------------------------
(* Subscription detection: services/subscription_service.py, lines 12-164.  *)
(* A payee name is a sequence of characters; an amount is counted in        *)
(* hundredths, and the amounts of this specification are whole units, which *)
(* float() reads exactly.                                                   *)

MaxPayeeTxns == 4

\* str.lower on the characters the payee names are written with
LowerChar(c) ==
    IF c = "N" THEN "n" ELSE IF c = "F" THEN "f" ELSE IF c = "G" THEN "g" ELSE c

Whitespace == {" "}

RECURSIVE lstrip(_)
lstrip(s) == IF s # <<>> /\ Head(s) \in Whitespace THEN lstrip(Tail(s)) ELSE s

RECURSIVE rstrip(_)
rstrip(s) ==
    IF s # <<>> /\ s[Len(s)] \in Whitespace THEN rstrip(SubSeq(s, 1, Len(s) - 1)) ELSE s

\* SubscriptionService._normalize_payee: payee.lower().strip()
normalize_payee(payee) == rstrip(lstrip([i \in 1..Len(payee) |-> LowerChar(payee[i])]))

RECURSIVE SumSeq(_)
SumSeq(s) == IF s = <<>> THEN 0 ELSE Head(s) + SumSeq(Tail(s))

SquaresOf(s) == [i \in 1..Len(s) |-> s[i] * s[i]]

\* statistics.mean of integers: the float nearest to the exact mean
mean(xs) ==
    LET total == SumSeq(xs)
    IN float_of_ratio(IF total < 0 THEN 0 - 1 ELSE 1,
                      IF total < 0 THEN 0 - total ELSE total, Len(xs))

\* the exact sample variance of integers, as a fraction:
\* (n * sum(x^2) - sum(x)^2) / (n * (n - 1))
sample_variance(xs) ==
    LET n == Len(xs)
        total == SumSeq(xs)
    IN [p |-> (n * SumSeq(SquaresOf(xs))) - (total * total), q |-> n * (n - 1)]

\* statistics.variance: the float nearest to the exact sample variance
variance(xs) == LET v == sample_variance(xs) IN float_of_ratio(1, v.p, v.q)

\* statistics.stdev: the float nearest to the square root of the exact
\* sample variance
stdev(xs) == LET v == sample_variance(xs) IN float_sqrt_of_ratio(v.p, v.q)

\* the literals 0.6 and 0.4 of _analyze_pattern, line 91
FrequencyWeight == float_of_ratio(1, 6, 10)
AmountWeight == float_of_ratio(1, 4, 10)

\* the bands of _determine_frequency: lowest mean, highest mean, and the
\* divisor of the variance
FrequencyBands ==
    <<[frequency |-> "weekly", low |-> float_of_int(5), high |-> float_of_int(9),
       divisor |-> float_of_int(10)],
      [frequency |-> "monthly", low |-> float_of_int(25), high |-> float_of_int(35),
       divisor |-> float_of_int(50)],
      [frequency |-> "yearly", low |-> float_of_int(350), high |-> float_of_int(380),
       divisor |-> float_of_int(200)]>>

\* a mutant of in_band: the highest mean of a band is left out
in_band_mutant(band, avg_delta) ==
    /\ float_le(band.low, avg_delta)
    /\ float_less(avg_delta, band.high)

\* low <= avg_delta <= high
in_band(band, avg_delta) ==
    /\ float_le(band.low, avg_delta)
    /\ float_le(avg_delta, band.high)

\* a mutant of band_confidence: every band divides the variance by 10
band_confidence_mutant(band, deltas) ==
    LET v == IF Len(deltas) > 1 THEN variance(deltas) ELSE FloatZero
    IN float_max0(float_sub(FloatOne, float_div(v, FrequencyBands[1].divisor)))

\* a mutant of band_confidence: a single delta gives no confidence
band_confidence_single_mutant(band, deltas) ==
    IF Len(deltas) > 1
    THEN float_max0(float_sub(FloatOne, float_div(variance(deltas), band.divisor)))
    ELSE FloatZero

\* max(0, 1 - (variance / divisor)), the variance 0 for a single delta
band_confidence(band, deltas) ==
    LET v == IF Len(deltas) > 1 THEN variance(deltas) ELSE FloatZero
    IN float_max0(float_sub(FloatOne, float_div(v, band.divisor)))

RECURSIVE first_band(_, _, _)
\* the if / elif chain of _determine_frequency over the bands that are left
first_band(bands, avg_delta, deltas) ==
    IF bands = <<>> THEN [frequency |-> NULL, confidence |-> FloatZero]
    ELSE IF in_band(Head(bands), avg_delta)
    THEN [frequency |-> Head(bands).frequency,
          confidence |-> band_confidence(Head(bands), deltas)]
    ELSE first_band(Tail(bands), avg_delta, deltas)

\* SubscriptionService._determine_frequency: the first band the mean lies
\* in, or (None, 0)
determine_frequency(avg_delta, deltas) == first_band(FrequencyBands, avg_delta, deltas)

\* float(txn["amount"]) of an amount of whole units, as the integer it is
units(amount) == amount \div 100

\* SubscriptionService._calculate_amount_confidence
calculate_amount_confidence(amounts) ==
    IF Len(amounts) < 2 THEN FloatHalf
    ELSE LET mean_amount == mean(amounts)
         IN IF mean_amount.m = <<>> THEN FloatZero
            ELSE LET std_dev == stdev(amounts)
                     cv == float_div(std_dev, mean_amount)
                 IN float_max0(float_sub(FloatOne, float_mul(cv, FloatTwo)))

RECURSIVE SortedInts(_)
\* list.sort on integers
SortedInts(s) ==
    IF s = <<>> THEN <<>>
    ELSE LET i == CHOOSE i \in 1..Len(s) : \A j \in 1..Len(s) : s[i] <= s[j]
         IN <<s[i]>> \o SortedInts(SubSeq(s, 1, i - 1) \o SubSeq(s, i + 1, Len(s)))

\* the category most of the transactions carry, the first such in the order
\* of the transactions (max over a dict in insertion order), None if none
most_common_category(txns) ==
    LET with_cat == {i \in 1..Len(txns) : txns[i].category_id # NULL}
        count(c) == Cardinality({i \in with_cat : txns[i].category_id = c})
        first(c) == CHOOSE i \in with_cat :
                        txns[i].category_id = c
                        /\ \A j \in with_cat : txns[j].category_id = c => i <= j
        best == {i \in with_cat :
                    /\ first(txns[i].category_id) = i
                    /\ \A j \in with_cat :
                          \/ count(txns[j].category_id) < count(txns[i].category_id)
                          \/ /\ count(txns[j].category_id) = count(txns[i].category_id)
                             /\ i <= first(txns[j].category_id)}
    IN IF with_cat = {} THEN NULL ELSE txns[CHOOSE i \in best : TRUE].category_id

\* the confidence fields of DetectedSubscription accept (ge=0, le=1)
valid_confidence(c) == float_le(FloatZero, c) /\ float_le(c, FloatOne)

\* _analyze_pattern, lines 91 and 114: the weighted confidence, rounded to two
\* decimals
overall_confidence(frequency_confidence, amount_confidence) ==
    float_of_cents(round_2(float_add(float_mul(frequency_confidence, FrequencyWeight),
                                     float_mul(amount_confidence, AmountWeight))))

\* _analyze_pattern, lines 93-119: the DetectedSubscription built from the
\* frequency and the rounded confidence; "raises" says that it refuses the
\* confidence
detected_subscription(txns, dates, frequency, confidence) ==
    IF ~valid_confidence(confidence) THEN [found |-> FALSE, raises |-> TRUE]
    ELSE [found |-> TRUE, raises |-> FALSE,
          result |->
            [payee_name |-> txns[1].payee_name,
             estimated_amount |->
                round_2(mean([i \in 1..Len(txns) |-> units(txns[i].amount)])),
             frequency |-> frequency,
             confidence |-> confidence,
             transaction_count |-> Len(txns),
             last_transaction_date |->
                (CHOOSE t \in {txns[i] : i \in 1..Len(txns)} :
                    Ordinal(t.transaction_date) = dates[Len(dates)]).transaction_date,
             suggested_category_id |-> most_common_category(txns)]]

\* _analyze_pattern, lines 83-91, once the frequency is determined
pattern_of_frequency(txns, dates, f) ==
    IF f.frequency = NULL THEN [found |-> FALSE, raises |-> FALSE]
    ELSE detected_subscription(txns, dates, f.frequency,
            overall_confidence(f.confidence,
                calculate_amount_confidence([i \in 1..Len(txns) |-> units(txns[i].amount)])))

\* _analyze_pattern, lines 71-83, on the sorted dates
pattern_of_dates(txns, dates) ==
    LET deltas == [i \in 1..(Len(dates) - 1) |-> dates[i + 1] - dates[i]]
    IN pattern_of_frequency(txns, dates, determine_frequency(mean(deltas), deltas))

\* SubscriptionService._analyze_pattern on the transactions of one payee, in
\* the order of the query: None, or the pattern found
analyze_pattern(txns) ==
    IF Len(txns) < 2 THEN [found |-> FALSE, raises |-> FALSE]
    ELSE pattern_of_dates(txns,
            SortedInts([i \in 1..Len(txns) |-> Ordinal(txns[i].transaction_date)]))

\* the rows the detector's query returns, as a set: the expenses of the user
\* dated on or after today - days_lookback
detect_rows(txns, user, days_lookback) ==
    {t \in txns :
        /\ t.user_id = user
        /\ t.transaction_type = "expense"
        /\ Ordinal(t.transaction_date) >= Ordinal(Today) - days_lookback}

\* the orders the store may return them in: by transaction_date, rows of one
\* date in any order
DateOrderings(rows) ==
    {s \in OrderingsOf(rows) :
        \A i \in 1..(Len(s) - 1) :
            Ordinal(s[i].transaction_date) <= Ordinal(s[i + 1].transaction_date)}

\* the keys of payee_groups in insertion order
group_keys(rows) ==
    LET firsts == {i \in 1..Len(rows) :
                    \A j \in 1..(i - 1) :
                        normalize_payee(rows[j].payee_name) # normalize_payee(rows[i].payee_name)}
        nth(k) == CHOOSE i \in firsts : Cardinality({j \in firsts : j < i}) = k - 1
    IN [k \in 1..Cardinality(firsts) |-> normalize_payee(rows[nth(k)].payee_name)]

\* payee_groups[payee]: the rows of the payee, in the order of the query
group_of(rows, payee) ==
    SelectSeq(rows, LAMBDA t : normalize_payee(t.payee_name) = payee)

\* detect_subscriptions, line 48: result and result.confidence >= 0.5
keeps(pattern) ==
    pattern.found /\ float_le(FloatHalf, pattern.result.confidence)

RECURSIVE sorted_by_confidence(_)
\* list.sort(key=confidence, reverse=True): by decreasing confidence, results
\* of one confidence in their order of detection
sorted_by_confidence(detected) ==
    IF detected = <<>> THEN <<>>
    ELSE LET i == CHOOSE i \in 1..Len(detected) :
                    /\ \A j \in 1..Len(detected) :
                          float_le(detected[j].confidence, detected[i].confidence)
                    /\ \A j \in 1..(i - 1) :
                          float_less(detected[j].confidence, detected[i].confidence)
         IN <<detected[i]>>
            \o sorted_by_confidence(SubSeq(detected, 1, i - 1)
                                    \o SubSeq(detected, i + 1, Len(detected)))

\* a mutant of detected_order: the results stay in their order of detection
detected_order_mutant(detected) == detected

\* detect_subscriptions, line 52
detected_order(detected) == sorted_by_confidence(detected)

\* detect_subscriptions, lines 42-49: the patterns of the groups of two or
\* more rows, in the order of the groups
patterns_of(rows) ==
    LET keys == group_keys(rows)
        big == SelectSeq(keys, LAMBDA payee : Len(group_of(rows, payee)) >= 2)
    IN [k \in 1..Len(big) |-> analyze_pattern(group_of(rows, big[k]))]

\* p.result for each pattern p
results_of(patterns) == [k \in 1..Len(patterns) |-> patterns[k].result]

\* detect_subscriptions, lines 46-52, on the patterns of the groups
detected_from(patterns) ==
    IF \E k \in 1..Len(patterns) : patterns[k].raises
    THEN [status |-> 500]
    ELSE [status |-> 200,
          detected |-> detected_order(results_of(SelectSeq(patterns, keeps)))]

\* SubscriptionService.detect_subscriptions on the rows of its query: the
\* list it returns, unless DetectedSubscription raises
detected_of(rows) == detected_from(patterns_of(rows))

\* GET /subscriptions/detect
detect_subscriptions(user, days_lookback, rows) ==
    /\ last' = [op |-> "detect", user |-> user, days_lookback |-> days_lookback,
                rows |-> rows] @@ detected_of(rows)
    /\ UNCHANGED <<accounts, categories, transactions, next_txn_id, n_assign, n_amend, mv,
                   other_state>>

\* the row create_transaction inserts, with the payee and the date of the
\* request (routers/transactions.py, lines 43-50, 56)
new_payee_row(id, user, data) ==
    [id |-> id,
     user_id |-> user,
     account_id |-> data.account_id,
     category_id |-> data.category_id,
     payee_name |-> data.payee_name,
     amount |-> data.amount,
     transaction_type |-> data.transaction_type,
     transaction_date |-> data.transaction_date]

\* POST /transactions, the row carrying its payee and its date
create_payee_transaction(user, data) ==
    /\ next_txn_id <= MaxPayeeTxns
    /\ LET txn == new_payee_row(next_txn_id, user, data)
           after == ledger_after_post(accounts, categories, transactions, txn)
       IN /\ transactions' = after.transactions
          /\ accounts' = after.accounts
          /\ categories' = after.categories
          /\ next_txn_id' = next_txn_id + 1
          /\ last' = [op |-> "post", user |-> user, status |-> 201, id |-> txn.id]
    /\ UNCHANGED <<n_assign, n_amend, mv, other_state>>

DateOf(y, m, d) == [year |-> y, month |-> m, day |-> d]

\* the payee names of the requests: two spellings of one payee, and another
Netflix == <<"N", "f">>
NetflixSpelled == <<" ", "n", "F">>
Gym == <<"G", "y">>

\* a request of the model: the first user's expense on the account a1
PayeeExpense(payee, amount, category_id, d) ==
    <<"u1", [account_id |-> "a1", category_id |-> category_id, payee_name |-> payee,
             amount |-> amount, transaction_type |-> "expense", transaction_date |-> d]>>

\* the requests the model draws from, by date: a payee charged 10 on two
\* dates 365 and 400 days before the last, and then on dates 6, 7 and 8 days
\* apart, and once refunded 30; a payee charged 49 on dates 30, 25, 6 and 29
\* days apart, once received as an income, once charged 50 under another
\* spelling, and once charged to the second user; its last charge is dated
\* a year after today, which TransactionCreate accepts
PayeeRequests ==
    <<PayeeExpense(Gym, 1000, NULL, DateOf(2023, 1, 25)),
      PayeeExpense(Gym, 1000, NULL, DateOf(2023, 3, 1)),
      PayeeExpense(Netflix, 4900, "c1", DateOf(2023, 12, 1)),
      PayeeExpense(Netflix, 4900, "c1", DateOf(2023, 12, 31)),
      PayeeExpense(Netflix, 4900, "c1", DateOf(2024, 1, 25)),
      <<"u1", [account_id |-> "a1", category_id |-> "c1", payee_name |-> Netflix,
               amount |-> 4900, transaction_type |-> "income",
               transaction_date |-> DateOf(2024, 1, 25)]>>,
      PayeeExpense(Netflix, 4900, "c1", DateOf(2024, 1, 31)),
      PayeeExpense(NetflixSpelled, 5000, "c2", DateOf(2024, 1, 31)),
      <<"u2", [account_id |-> "a3", category_id |-> "c3", payee_name |-> Netflix,
               amount |-> 4900, transaction_type |-> "expense",
               transaction_date |-> DateOf(2024, 1, 31)]>>,
      PayeeExpense(Gym, 1000, NULL, DateOf(2024, 2, 8)),
      PayeeExpense(Gym, 1000, NULL, DateOf(2024, 2, 14)),
      PayeeExpense(Gym, 0 - 3000, NULL, DateOf(2024, 2, 14)),
      PayeeExpense(Gym, 1000, NULL, DateOf(2024, 2, 21)),
      PayeeExpense(Gym, 1000, NULL, DateOf(2024, 2, 29)),
      PayeeExpense(Netflix, 4900, "c1", DateOf(2024, 2, 29)),
      PayeeExpense(Netflix, 4900, "c1", DateOf(2025, 2, 28))>>

\* the days_lookback of the requests: the default, and one that reaches back
\* more than a year
Lookbacks == {90, 400}

\* whether a row is the row of this request
RowOf(t, r) == \E id \in 1..MaxPayeeTxns : t = new_payee_row(id, r[1], r[2])

\* the requests are sent in the order of the list, each at most once
PostPayee ==
    \E i \in 1..Len(PayeeRequests) :
        /\ \A t \in transactions : \E j \in 1..(i - 1) : RowOf(t, PayeeRequests[j])
        /\ create_payee_transaction(PayeeRequests[i][1], PayeeRequests[i][2])

\* a detection changes no table, and one that follows another returns what
\* it would have returned in its place: the model runs one between posts
Detect ==
    /\ last.op # "detect"
    /\ \E user \in Users, days_lookback \in Lookbacks :
          \E rows \in DateOrderings(detect_rows(transactions, user, days_lookback)) :
              detect_subscriptions(user, days_lookback, rows)

NextDetect == PostPayee \/ Detect

SpecDetect == Init /\ [][NextDetect]_vars

----------------------------------------------------------------------------
(* Message parsing: services/ai_service.py, lines 25-94 and 197-253.  A     *)
(* text is a sequence of characters; an Arabic letter is written by its     *)
(* name.  What the extractor answers is an input: no client, a call that    *)
(* raises, a text json.loads refuses, or the value json.loads returns.      *)

UpperLetters == <<"A", "B", "C", "D", "E", "F", "G", "H", "I", "J", "K", "L", "M",
                  "N", "O", "P", "Q", "R", "S", "T", "U", "V", "W", "X", "Y", "Z">>
LowerLetters == <<"a", "b", "c", "d", "e", "f", "g", "h", "i", "j", "k", "l", "m",
                  "n", "o", "p", "q", "r", "s", "t", "u", "v", "w", "x", "y", "z">>

\* [A-Za-z]
AsciiLetters == {UpperLetters[i] : i \in 1..26} \cup {LowerLetters[i] : i \in 1..26}

\* the letters of the range U+0600 to U+06FF that the patterns and defaults use
ArabicLetters == {"alef", "alef_hamza", "alef_hamza_below", "alef_maksura", "beh",
                  "teh", "hah", "kheh", "dal", "reh", "seen", "ain", "ghain", "feh",
                  "lam", "meem", "noon", "waw", "yeh"}

\* \d, for the digits the messages use
Digits == {"0", "1", "2", "3", "4", "5", "6", "7", "8", "9"}

DigitValue(c) == CHOOSE v \in 0..9 : <<"0", "1", "2", "3", "4", "5", "6", "7", "8", "9">>[v + 1] = c

\* str.lower() of one character, and what re.IGNORECASE compares
lower(c) ==
    IF \E i \in 1..26 : UpperLetters[i] = c
    THEN LowerLetters[CHOOSE i \in 1..26 : UpperLetters[i] = c]
    ELSE c

\* whether the word stands in the text at position i, case ignored
word_at(text, i, word) ==
    /\ i + Len(word) - 1 <= Len(text)
    /\ \A k \in 1..Len(word) : lower(text[i + k - 1]) = lower(word[k])

\* the position after the longest run of characters of the class from i on
RECURSIVE run_end(_, _, _)
run_end(text, i, class) ==
    IF i <= Len(text) /\ text[i] \in class THEN run_end(text, i + 1, class) ELSE i

Sar == <<"S", "A", "R">>
RiyalShort == <<"reh", ".", "seen">>
Riyal == <<"reh", "yeh", "alef", "lam">>
AmountWord == <<"A", "m", "o", "u", "n", "t">>
AlMablagh == <<"alef", "lam", "meem", "beh", "lam", "ghain">>

\* (?:SAR|...): the position after the alternative that stands at i, 0 if none
currency_end(text, i) ==
    IF word_at(text, i, Sar) THEN i + Len(Sar)
    ELSE IF word_at(text, i, RiyalShort) THEN i + Len(RiyalShort)
    ELSE IF word_at(text, i, Riyal) THEN i + Len(Riyal)
    ELSE 0

\* ([\d,]+\.?\d*) at i, taken greedily: the position after the group, 0 when
\* no digit or comma stands at i
amount_group_end(text, i) ==
    LET a == run_end(text, i, Digits \cup {","})
        b == IF a <= Len(text) /\ text[a] = "." THEN a + 1 ELSE a
    IN IF a = i THEN 0 ELSE run_end(text, b, Digits)

\* a word, then \s*, then the group: the group matched when the word ends
\* before position j, <<>> as "no match here"
group_after(text, j) ==
    LET k == run_end(text, j, Whitespace)
        e == amount_group_end(text, k)
    IN IF e = 0 THEN <<>> ELSE <<SubSeq(text, k, e - 1)>>

\* the four amount_patterns tried at position i: <<group>> or <<>>
amount_match_at(pattern, text, i) ==
    IF pattern = 1
    THEN IF currency_end(text, i) = 0 THEN <<>>
         ELSE group_after(text, currency_end(text, i))
    ELSE IF pattern = 2
    THEN \* the group ends where the run of digits, commas and points ends:
         \* nothing that may follow it is of these
         LET e == amount_group_end(text, i)
         IN IF e = 0 \/ (e <= Len(text) /\ text[e] \in Digits \cup {",", "."}) THEN <<>>
            ELSE IF currency_end(text, run_end(text, e, Whitespace)) = 0 THEN <<>>
            ELSE <<SubSeq(text, i, e - 1)>>
    ELSE LET word == IF pattern = 3 THEN AmountWord ELSE AlMablagh
             j == i + Len(word)
         IN IF ~word_at(text, i, word) THEN <<>>
            ELSE group_after(text, IF j <= Len(text) /\ text[j] = ":" THEN j + 1 ELSE j)

\* of the matches tried position by position, the leftmost there is
first_match(matches) ==
    LET hits == {i \in 1..Len(matches) : matches[i] # <<>>}
    IN IF hits = {} THEN <<>>
       ELSE matches[CHOOSE i \in hits : \A j \in hits : i <= j]

\* re.search(pattern, text, re.IGNORECASE): the match at the leftmost
\* position that has one
amount_search(pattern, text) ==
    first_match([i \in 1..Len(text) |-> amount_match_at(pattern, text, i)])

\* Decimal(s) of a string of digits with at most one point: its coefficient
\* and exponent; a string with no digit raises InvalidOperation
RECURSIVE digits_value(_)
digits_value(s) ==
    IF s = <<>> THEN 0 ELSE 10 * digits_value(SubSeq(s, 1, Len(s) - 1)) + DigitValue(s[Len(s)])

decimal_of(s) ==
    LET digits == SelectSeq(s, LAMBDA c : c \in Digits)
        points == {i \in 1..Len(s) : s[i] = "."}
        well_formed == /\ digits # <<>>
                       /\ Cardinality(points) <= 1
                       /\ \A i \in 1..Len(s) : s[i] \in Digits \cup {"."}
    IN IF ~well_formed THEN [raises |-> TRUE]
       ELSE [raises |-> FALSE, coefficient |-> digits_value(digits),
             exponent |-> IF points = {} THEN 0
                          ELSE (CHOOSE i \in points : TRUE) - Len(s)]

DecimalZero == [raises |-> FALSE, coefficient |-> 0, exponent |-> 0]

\* _fallback_parse, lines 206-212: the first pattern that matches gives the
\* amount, commas removed
RECURSIVE fallback_amount(_, _)
fallback_amount(pattern, text) ==
    IF pattern > 4 THEN DecimalZero
    ELSE LET match == amount_search(pattern, text)
         IN IF match # <<>>
            THEN decimal_of(SelectSeq(match[1], LAMBDA c : c # ","))
            ELSE fallback_amount(pattern + 1, text)

At == <<"a", "t">>
From == <<"f", "r", "o", "m">>
On == <<"o", "n">>
Min == <<"meem", "noon">>
Lada == <<"lam", "dal", "alef_maksura">>
Fi == <<"feh", "yeh">>
Purchase == <<"P", "u", "r", "c", "h", "a", "s", "e">>

\* the position after the first of the words that stands at i, 0 if none
any_word_end(text, i, words) ==
    LET hits == {k \in 1..Len(words) : word_at(text, i, words[k])}
    IN IF hits = {} THEN 0
       ELSE i + Len(words[CHOOSE k \in hits : \A h \in hits : k <= h])

\* \s+ and then one of the words, from position e on
closes_at(text, e, words) ==
    LET k == run_end(text, e, Whitespace)
    IN k > e /\ any_word_end(text, k, words) # 0

\* the first payee pattern at position i:
\* (?:at|..)\s+([A-Za-z\s + Arabic]+?)(?:\s+(?:SAR|..|on|..)); the \s+ takes
\* the most it can and the group the least it can
payee_match_1(text, i) ==
    LET j == any_word_end(text, i, <<At, Min, Lada, Fi>>)
        k == run_end(text, j, Whitespace)
        class == AsciiLetters \cup Whitespace \cup ArabicLetters
        closers == <<Sar, RiyalShort, On, Fi>>
        \* the group from b to e - 1
        fits(from, to) == /\ to > from
                          /\ run_end(text, from, class) >= to
                          /\ closes_at(text, to, closers)
        starts == {b \in (j + 1)..k : \E e \in (b + 1)..(Len(text) + 1) : fits(b, e)}
        b == CHOOSE x \in starts : \A y \in starts : x >= y
        e == CHOOSE x \in (b + 1)..(Len(text) + 1) :
                fits(b, x) /\ \A y \in (b + 1)..(x - 1) : ~fits(b, y)
    IN IF j = 0 \/ starts = {} THEN <<>> ELSE <<SubSeq(text, b, e - 1)>>

\* the second: Purchase\s+(?:at|from)\s+([A-Za-z\s]+), everything greedy
payee_match_2(text, i) ==
    LET j == i + Len(Purchase)
        k == run_end(text, j, Whitespace)
        m == any_word_end(text, k, <<At, From>>)
        n == run_end(text, m, Whitespace)
        class == AsciiLetters \cup Whitespace
        \* the last \s+ gives one character back when no letter follows it
        b == IF n <= Len(text) /\ text[n] \in class THEN n ELSE n - 1
    IN IF ~word_at(text, i, Purchase) \/ k = j \/ m = 0 \/ n = m \/ b = m THEN <<>>
       ELSE <<SubSeq(text, b, run_end(text, b, class) - 1)>>

payee_match_at(pattern, text, i) ==
    IF pattern = 1 THEN payee_match_1(text, i) ELSE payee_match_2(text, i)

payee_search(pattern, text) ==
    first_match([i \in 1..Len(text) |-> payee_match_at(pattern, text, i)])

UnknownPayee == <<"ghain", "yeh", "reh", " ", "meem", "ain", "reh", "waw", "feh">>
OtherCategory == <<"alef_hamza", "kheh", "reh", "alef_maksura">>

\* match.group(1).strip() of the first match there is
first_payee(match_1, match_2) ==
    IF match_1 # <<>> THEN rstrip(lstrip(match_1[1]))
    ELSE IF match_2 # <<>> THEN rstrip(lstrip(match_2[1]))
    ELSE UnknownPayee

\* _fallback_parse, lines 219-224
fallback_payee(text) == first_payee(payee_search(1, text), payee_search(2, text))

IncomeWords ==
    {<<"c", "r", "e", "d", "i", "t">>, <<"d", "e", "p", "o", "s", "i", "t">>,
     <<"r", "e", "c", "e", "i", "v", "e", "d">>, <<"s", "a", "l", "a", "r", "y">>,
     <<"alef_hamza_below", "yeh", "dal", "alef", "ain">>,
     <<"reh", "alef", "teh", "beh">>,
     <<"teh", "hah", "waw", "yeh", "lam", " ", "waw", "alef", "reh", "dal">>}

\* any(word in text.lower() for word in [...])
is_income(text) ==
    \E word \in IncomeWords : \E i \in 1..Len(text) :
        /\ i + Len(word) - 1 <= Len(text)
        /\ \A k \in 1..Len(word) : lower(text[i + k - 1]) = word[k]

\* amount > 0
decimal_positive(amount) == amount.coefficient > 0

\* a Python truth value as it is written
PyBool(b) == IF b THEN "True" ELSE "False"

\* AIService._fallback_parse(text, user_categories): the dictionary returned,
\* or the exception of Decimal(amount_str), line 211
fallback_parse(text, user_categories) ==
    LET amount == fallback_amount(1, text)
        first == user_categories # NULL /\ Len(user_categories) > 0
    IN IF amount.raises THEN [raises |-> TRUE]
       ELSE [raises |-> FALSE,
             result |->
               [payee |-> fallback_payee(text),
                amount |-> [coefficient |-> amount.coefficient, exponent |-> amount.exponent],
                date |-> Today,
                transaction_type |-> IF is_income(text) THEN "income" ELSE "expense",
                category_id |-> IF first THEN user_categories[1].id ELSE NULL,
                category_name |-> IF first THEN user_categories[1].name ELSE OtherCategory,
                is_transaction |-> PyBool(decimal_positive(amount)),
                confidence |-> 50]]

\* a JSON number, as the decimal its text reads as
JsonNumber(coefficient, exponent) ==
    [t |-> "number", coefficient |-> coefficient, exponent |-> exponent]

\* the JSON value null, None once loaded
JsonNull == [t |-> "null"]

\* a date string, by the numbers written in it
JsonDate(year, month, day) == [t |-> "string", year |-> year, month |-> month, day |-> day]

\* AIService._parse_date: today for no string and for one strptime refuses
parse_date(date_str) ==
    IF date_str = JsonNull THEN Today
    ELSE IF ValidDate(date_str.year, date_str.month, date_str.day)
         THEN [year |-> date_str.year, month |-> date_str.month, day |-> date_str.day]
         ELSE Today

\* result.get(key, default)
get(result, key, default) == IF key \in DOMAIN result THEN result[key] ELSE default

\* Decimal(str(value)) of a JSON value, line 77: a number gives its decimal,
\* a string is read as written, None and a text of no number raise; NaN is
\* made, and refuses the comparison of line 78
json_decimal(value) ==
    IF value.t = "number"
    THEN [raises |-> FALSE, coefficient |-> value.coefficient, exponent |-> value.exponent]
    ELSE IF value.t = "string" THEN decimal_of(value.text)
    ELSE [raises |-> TRUE]

\* parse_sms_transaction, lines 77-89: the dictionary built from the object
\* the extractor answered and the amount read from it; confidence in
\* hundredths
extracted(result, amount) ==
    [payee |-> get(result, "payee", UnknownPayee),
     amount |-> [coefficient |-> amount.coefficient, exponent |-> amount.exponent],
     date |-> parse_date(get(result, "date", JsonNull)),
     transaction_type |-> get(result, "transaction_type", "expense"),
     category_id |-> get(result, "category_id", NULL),
     category_name |-> get(result, "category_name",
                           get(result, "category_suggestion", OtherCategory)),
     is_transaction |-> IF decimal_positive(amount)
                        THEN get(result, "is_transaction", "True")
                        ELSE "False",
     confidence |-> 95]

\* parse_sms_transaction, lines 27-89: what the try block returns, "raises"
\* when there is no client or an exception is caught
extraction(answer) ==
    IF answer.kind # "object" THEN [raises |-> TRUE]
    ELSE LET amount == json_decimal(get(answer.fields, "amount", JsonNumber(0, 0)))
         IN IF amount.raises THEN [raises |-> TRUE]
            ELSE [raises |-> FALSE, result |-> extracted(answer.fields, amount)]

\* AIService.parse_sms_transaction(sms_body, user_categories) for an answer
\* of the extractor
parse_sms_transaction(answer, sms_body, user_categories) ==
    IF extraction(answer).raises THEN fallback_parse(sms_body, user_categories)
    ELSE extraction(answer)

\* the messages parsed: "Purchase at Jarir SAR 120.50", "Paid SAR, 50.00",
\* "hello", "salary 1,500 SAR", "Amount: 7", "SAR 0", "12.SAR",
\* "Purchase from  Shop 9" and the word riyal followed by " 5"
Messages ==
    {<<"P", "u", "r", "c", "h", "a", "s", "e", " ", "a", "t", " ", "J", "a", "r", "i", "r", " ", "S", "A", "R", " ", "1", "2", "0", ".", "5", "0">>,
     <<"P", "a", "i", "d", " ", "S", "A", "R", ",", " ", "5", "0", ".", "0", "0">>,
     <<"h", "e", "l", "l", "o">>,
     <<"s", "a", "l", "a", "r", "y", " ", "1", ",", "5", "0", "0", " ", "S", "A", "R">>,
     <<"A", "m", "o", "u", "n", "t", ":", " ", "7">>,
     <<"S", "A", "R", " ", "0">>,
     <<"1", "2", ".", "S", "A", "R">>,
     <<"P", "u", "r", "c", "h", "a", "s", "e", " ", "f", "r", "o", "m", " ", " ", "S", "h", "o", "p", " ", "9">>,
     <<"reh", "yeh", "alef", "lam", " ", "5">>}

\* the categories of the user as the routes pass them: none, an empty list,
\* a list of one
CategoryLists == {NULL, <<>>, <<[id |-> "c1", name |-> <<"F", "o", "o", "d">>]>>}

\* what the extractor answers
ExtractorAnswers ==
    {[kind |-> "no_client"], [kind |-> "raises"], [kind |-> "unparsable"],
     [kind |-> "list"]} \cup
    {[kind |-> "object", fields |-> fields] : fields \in
        {[payee |-> <<"J">>, amount |-> JsonNumber(125, -1), date |-> JsonDate(2024, 2, 1),
          transaction_type |-> "income", category_id |-> "c2", category_name |-> <<"B">>,
          is_transaction |-> "True"],
         [payee |-> <<"J">>, amount |-> JsonNumber(5, 0), date |-> JsonDate(2024, 2, 30),
          transaction_type |-> "expense", category_suggestion |-> <<"B">>],
         [amount |-> JsonNumber(5, 0), is_transaction |-> "False"],
         [amount |-> JsonNumber(5, 0), is_transaction |-> "None"],
         [amount |-> JsonNumber(0, 0), is_transaction |-> "True"],
         [amount |-> JsonNumber(-5, 0), is_transaction |-> "True"],
         [amount |-> JsonNull],
         [amount |-> [t |-> "nan"]],
         [amount |-> [t |-> "string", text |-> <<"7">>]],
         [amount |-> [t |-> "string", text |-> <<"x">>]],
         [payee |-> <<"J">>]}}

\* one message parsed; what the caller gets is kept in last
parse_sms(answer, sms_body, user_categories) ==
    /\ last' = [op |-> "parse_sms", answer |-> answer, sms_body |-> sms_body,
                user_categories |-> user_categories]
                @@ parse_sms_transaction(answer, sms_body, user_categories)
    /\ UNCHANGED <<accounts, categories, transactions, next_txn_id, n_assign, n_amend, mv, other_state>>

\* one message is parsed in a behaviour
ParseSms ==
    /\ last.op # "parse_sms"
    /\ \E answer \in ExtractorAnswers, sms_body \in Messages,
          user_categories \in CategoryLists :
            parse_sms(answer, sms_body, user_categories)

NextParse == ParseSms

SpecParse == Init /\ [][NextParse]_vars

----------------------------------------------------------------------------
(* GET /budget/summary one store access at a time: get_budget_summary reads  *)
(* the accounts and the categories twice, once inside get_to_be_budgeted and *)
(* once for its own totals, and other requests are served between the reads. *)

\* get_to_be_budgeted line 36: the balances of the caller's active accounts
summary_read_accounts(slot, user) ==
    /\ rq[slot].pc = "idle"
    /\ rq' = [rq EXCEPT ![slot] =
                [pc |-> "read_categories", op |-> "summary", user |-> user,
                 total_balance |->
                     SumOf(ActiveAccountsOf(accounts, user),
                           [a \in DOMAIN accounts |-> accounts[a].balance])]]
    /\ UNCHANGED <<accounts, categories, transactions, next_txn_id, last, n_fail, ledger_frame>>

\* get_to_be_budgeted lines 38-40: the assigned amounts of the caller's
\* visible categories, and the difference it returns
summary_read_categories(slot) ==
    /\ rq[slot].pc = "read_categories" /\ rq[slot].op = "summary"
    /\ LET r == rq[slot]
           total_assigned ==
               SumOf(VisibleCategoriesOf(categories, r.user),
                     [c \in DOMAIN categories |-> categories[c].assigned_amount])
       IN rq' = [rq EXCEPT ![slot] =
                   [pc |-> "reread_accounts", op |-> "summary", user |-> r.user,
                    to_be_budgeted |-> r.total_balance - total_assigned]]
    /\ UNCHANGED <<accounts, categories, transactions, next_txn_id, last, n_fail, ledger_frame>>

\* get_budget_summary lines 44-45: the balances, read again
summary_reread_accounts(slot) ==
    /\ rq[slot].pc = "reread_accounts" /\ rq[slot].op = "summary"
    /\ LET r == rq[slot]
       IN rq' = [rq EXCEPT ![slot] =
                   [pc |-> "reread_categories", op |-> "summary", user |-> r.user,
                    to_be_budgeted |-> r.to_be_budgeted,
                    total_balance |->
                        SumOf(ActiveAccountsOf(accounts, r.user),
                              [a \in DOMAIN accounts |-> accounts[a].balance])]]
    /\ UNCHANGED <<accounts, categories, transactions, next_txn_id, last, n_fail, ledger_frame>>

\* get_budget_summary lines 46-53: the categories, read again, and the dict
summary_reread_categories(slot) ==
    /\ rq[slot].pc = "reread_categories" /\ rq[slot].op = "summary"
    /\ LET r == rq[slot]
           visible == VisibleCategoriesOf(categories, r.user)
       IN last' = [op |-> "summary", user |-> r.user, status |-> 200,
                   body |-> [to_be_budgeted |-> r.to_be_budgeted,
                             total_balance |-> r.total_balance,
                             total_assigned |->
                                 SumOf(visible, [c \in DOMAIN categories |->
                                                   categories[c].assigned_amount]),
                             total_spent |->
                                 SumOf(visible, [c \in DOMAIN categories |->
                                                   categories[c].activity_amount])]]
    /\ rq' = [rq EXCEPT ![slot] = Idle]
    /\ UNCHANGED <<accounts, categories, transactions, next_txn_id, n_fail, ledger_frame>>

SummaryReadAccounts == summary_read_accounts(1, "u1")
SummaryReadCategories == summary_read_categories(1)
SummaryRereadAccounts == summary_reread_accounts(1)
SummaryRereadCategories == summary_reread_categories(1)

\* one summary request of the first user served one read at a time, between
\* posts, assigns and moves of other requests
NextSummary ==
    \/ Spend
    \/ Assign
    \/ Move
    \/ SummaryReadAccounts
    \/ SummaryReadCategories
    \/ SummaryRereadAccounts
    \/ SummaryRereadCategories

SpecSummary == Init /\ [][NextSummary]_vars

----------------------------------------------------------------------------
(* Voids of one transaction served at the same time: the one transaction is  *)
(* posted without interruption, and each void of it is served one store      *)
(* access at a time in its own request.                                      *)

\* the first post of the store
PostFirst == next_txn_id = 1 /\ Post

NextVoid ==
    \/ PostFirst
    \/ VoidLookup
    \/ VoidReadBalance
    \/ VoidWriteBalance
    \/ VoidReadActivity
    \/ VoidWriteActivity
    \/ VoidDelete

SpecVoid == Init /\ [][NextVoid]_vars

----------------------------------------------------------------------------
(* The inbox with one item: one message is ingested, and approve and reject  *)
(* calls are served one after the other, each without interruption.          *)

\* the first ingest of the store
IngestFirst == next_pending_id = 1 /\ IngestSms

NextInbox == IngestFirst \/ Approve \/ Reject

SpecInbox == Init /\ [][NextInbox]_vars

----------------------------------------------------------------------------
(* POST /ingest/pending/{pending_id}/approve one store access at a time: the *)
(* handler holds no lock and opens no store transaction, so the accesses of  *)
(* two requests interleave, and an access may fail (the store raises),       *)
(* which ends the request with a 500 and undoes nothing.                     *)

\* what the step-wise approve requests leave alone
approve_frame == <<n_assign, n_amend, mv, subscriptions, next_sub_id, next_pending_id>>

\* approve_pending_transaction lines 172-186: read the item, check its status
approve_lookup(slot, user, pending_id, request) ==
    /\ rq[slot].pc = "idle"
    /\ IF PendingRows(pending_id, user) = {}
       THEN /\ last' = [op |-> "approve", user |-> user, status |-> 404, id |-> 0]
            /\ UNCHANGED rq
       ELSE LET pending == CHOOSE p \in PendingRows(pending_id, user) : TRUE
            IN IF pending.status # "pending"
               THEN /\ last' = [op |-> "approve", user |-> user, status |-> 400,
                                id |-> 0]
                    /\ UNCHANGED rq
               ELSE /\ rq' = [rq EXCEPT ![slot] =
                                [pc |-> "insert", op |-> "approve", user |-> user,
                                 pending |-> pending, request |-> request]]
                    /\ UNCHANGED last
    /\ UNCHANGED <<accounts, categories, transactions, next_txn_id, pending_transactions,
                   n_fail, approve_frame>>

\* lines 188-209: insert the transaction
approve_insert(slot) ==
    /\ rq[slot].pc = "insert" /\ rq[slot].op = "approve"
    /\ next_txn_id <= MaxTxns
    /\ LET r == rq[slot]
           txn == [id |-> next_txn_id, user_id |-> r.user,
                   account_id |-> r.request.account_id,
                   category_id |-> r.request.category_id,
                   amount |-> approve_amount(r.request, r.pending),
                   transaction_type |-> "expense"]
       IN /\ transactions' = transactions \cup {txn}
          /\ rq' = [rq EXCEPT ![slot] =
                      [pc |-> "read_balance", op |-> "approve", user |-> r.user,
                       pending |-> r.pending, request |-> r.request, txn |-> txn]]
    /\ next_txn_id' = next_txn_id + 1
    /\ UNCHANGED <<accounts, categories, pending_transactions, last, n_fail, approve_frame>>

\* line 213: read the balance of the request's account
approve_read_balance(slot) ==
    /\ rq[slot].pc = "read_balance" /\ rq[slot].op = "approve"
    /\ LET r == rq[slot]
       IN rq' = [rq EXCEPT ![slot] =
                   [pc |-> "write_balance", op |-> "approve", user |-> r.user,
                    pending |-> r.pending, request |-> r.request, txn |-> r.txn,
                    balance |-> accounts[r.request.account_id].balance]]
    /\ UNCHANGED <<accounts, categories, transactions, next_txn_id, pending_transactions,
                   last, n_fail, approve_frame>>

\* lines 214-215: write the new balance; go on to the category when the
\* request names one
approve_write_balance(slot) ==
    /\ rq[slot].pc = "write_balance" /\ rq[slot].op = "approve"
    /\ LET r == rq[slot]
       IN /\ accounts' = AccountsWithBalance(accounts, r.request.account_id,
                            r.balance - r.txn.amount)
          /\ rq' = [rq EXCEPT ![slot].pc =
                        IF r.request.category_id # NULL THEN "read_activity" ELSE "mark"]
    /\ UNCHANGED <<categories, transactions, next_txn_id, pending_transactions, last,
                   n_fail, approve_frame>>

\* lines 217-218: read the activity of the request's category
approve_read_activity(slot) ==
    /\ rq[slot].pc = "read_activity" /\ rq[slot].op = "approve"
    /\ LET r == rq[slot]
       IN rq' = [rq EXCEPT ![slot] =
                   [pc |-> "write_activity", op |-> "approve", user |-> r.user,
                    pending |-> r.pending, request |-> r.request, txn |-> r.txn,
                    activity |-> categories[r.request.category_id].activity_amount]]
    /\ UNCHANGED <<accounts, categories, transactions, next_txn_id, pending_transactions,
                   last, n_fail, approve_frame>>

\* lines 219-220: write the new activity
approve_write_activity(slot) ==
    /\ rq[slot].pc = "write_activity" /\ rq[slot].op = "approve"
    /\ LET r == rq[slot]
       IN /\ categories' = CategoriesWithActivity(categories, r.request.category_id,
                              r.activity + r.txn.amount)
          /\ rq' = [rq EXCEPT ![slot].pc = "update_payee_embedding"]
    /\ UNCHANGED <<accounts, transactions, next_txn_id, pending_transactions, last,
                   n_fail, approve_frame>>

\* line 222: the call of _update_payee_embedding raises and ends the request
approve_update_payee_embedding(slot) ==
    /\ rq[slot].pc = "update_payee_embedding" /\ rq[slot].op = "approve"
    /\ update_payee_embedding_raises(rq[slot].request)
    /\ last' = [op |-> "approve", user |-> rq[slot].user, status |-> 500, id |-> 0]
    /\ rq' = [rq EXCEPT ![slot] = Idle]
    /\ UNCHANGED <<accounts, categories, transactions, next_txn_id, pending_transactions,
                   n_fail, approve_frame>>

\* lines 224-226: set the item to approved and answer
approve_mark(slot) ==
    /\ rq[slot].pc = "mark" /\ rq[slot].op = "approve"
    /\ pending_transactions' =
          {IF p.id = rq[slot].pending.id THEN [p EXCEPT !.status = "approved"] ELSE p :
             p \in pending_transactions}
    /\ last' = [op |-> "approve", user |-> rq[slot].user, status |-> 200,
                id |-> rq[slot].txn.id]
    /\ rq' = [rq EXCEPT ![slot] = Idle]
    /\ UNCHANGED <<accounts, categories, transactions, next_txn_id, n_fail, approve_frame>>

\* the store access the request is about to make raises: the handler does
\* not catch it, the request ends with a 500 and what it wrote stays
approve_store_fails(slot) ==
    /\ rq[slot].pc \in {"insert", "read_balance", "write_balance", "read_activity",
                        "write_activity", "mark"}
    /\ rq[slot].op = "approve"
    /\ n_fail < MaxFails
    /\ n_fail' = n_fail + 1
    /\ last' = [op |-> "approve", user |-> rq[slot].user, status |-> 500, id |-> 0]
    /\ rq' = [rq EXCEPT ![slot] = Idle]
    /\ UNCHANGED <<accounts, categories, transactions, next_txn_id, pending_transactions,
                   approve_frame>>

ApproveLookup == \E slot \in Slots, request \in ApproveRequests :
                    approve_lookup(slot, "u1", 1, request)
ApproveInsert == \E slot \in Slots : approve_insert(slot)
ApproveReadBalance == \E slot \in Slots : approve_read_balance(slot)
ApproveWriteBalance == \E slot \in Slots : approve_write_balance(slot)
ApproveReadActivity == \E slot \in Slots : approve_read_activity(slot)
ApproveWriteActivity == \E slot \in Slots : approve_write_activity(slot)
ApproveUpdatePayeeEmbedding == \E slot \in Slots : approve_update_payee_embedding(slot)
ApproveMark == \E slot \in Slots : approve_mark(slot)
ApproveStoreFails == \E slot \in Slots : approve_store_fails(slot)

\* one item of the inbox and the approve calls for it, served at the same time
\* over a store whose accesses may fail
NextApprove ==
    \/ IngestFirst
    \/ ApproveLookup
    \/ ApproveInsert
    \/ ApproveReadBalance
    \/ ApproveWriteBalance
    \/ ApproveReadActivity
    \/ ApproveWriteActivity
    \/ ApproveUpdatePayeeEmbedding
    \/ ApproveMark
    \/ ApproveStoreFails

SpecApprove == Init /\ [][NextApprove]_vars

----------------------------------------------------------------------------
(* POST /subscriptions/detect/{payee_name}/confirm, routers/subscriptions.py *)
(* lines 145-174, one statement of its loop at a time.                       *)

\* next_due < date.today()
before_today(next_due) == ~DateLE(Today, next_due)

\* the dates of the last transaction in the confirm requests: the ends of
\* the months from the 28th on (of 2024 all, of 2023 and 2100 those of
\* January, February and December), and every day of the February and the
\* March of 2024, between which today lies
ConfirmDates ==
    {d \in Dates : \/ d.day >= 28 /\ (d.year = 2024 \/ d.month \in {1, 2, 12})
                   \/ d.year = 2024 /\ d.month \in {2, 3}}

\* the bodies of the confirm requests the model draws from: a detection for
\* each of these dates and every frequency, with and without a suggested
\* category
DetectedSubscriptions ==
    [estimated_amount : {100}, frequency : Frequencies,
     last_transaction_date : ConfirmDates, suggested_category_id : {NULL, "c1"}]

\* lines 155-158: the due date after the last transaction
confirm_calculate(slot, user, detected) ==
    /\ rq[slot].pc = "idle"
    /\ rq' = [rq EXCEPT ![slot] =
                [pc |-> "while", op |-> "confirm", user |-> user, detected |-> detected,
                 next_due |-> calculate_next_due_date(detected.last_transaction_date,
                                                      detected.frequency)]]
    /\ UNCHANGED <<accounts, categories, transactions, next_txn_id, subscriptions,
                   next_sub_id, last, n_fail, n_assign, n_amend, mv, pending_transactions,
                   next_pending_id>>

\* lines 161-162: one turn of the loop
confirm_advance(slot) ==
    /\ rq[slot].pc = "while" /\ rq[slot].op = "confirm"
    /\ before_today(rq[slot].next_due)
    /\ rq' = [rq EXCEPT ![slot].next_due =
                calculate_next_due_date(rq[slot].next_due, rq[slot].detected.frequency)]
    /\ UNCHANGED <<accounts, categories, transactions, next_txn_id, subscriptions,
                   next_sub_id, last, n_fail, n_assign, n_amend, mv, pending_transactions,
                   next_pending_id>>

\* lines 164-174: the loop is left and the row inserted; data carries no
\* account_id, which the store leaves null
confirm_insert(slot) ==
    /\ rq[slot].pc = "while" /\ rq[slot].op = "confirm"
    /\ ~before_today(rq[slot].next_due)
    /\ next_sub_id <= MaxSubs
    /\ LET r == rq[slot]
       IN /\ subscriptions' = subscriptions \cup
                {[id |-> next_sub_id,
                  user_id |-> r.user,
                  estimated_amount |-> r.detected.estimated_amount,
                  next_due_date |-> r.next_due,
                  frequency |-> r.detected.frequency,
                  category_id |-> r.detected.suggested_category_id,
                  account_id |-> NULL,
                  is_active |-> TRUE]}
          /\ last' = [op |-> "confirm", user |-> r.user, status |-> 200,
                      id |-> next_sub_id, detected |-> r.detected]
    /\ next_sub_id' = next_sub_id + 1
    /\ rq' = [rq EXCEPT ![slot] = Idle]
    /\ UNCHANGED <<accounts, categories, transactions, next_txn_id, n_fail, n_assign,
                   n_amend, mv, pending_transactions, next_pending_id>>

\* one detection is confirmed
ConfirmCalculate ==
    /\ subscriptions = {} /\ rq[1].pc = "idle"
    /\ \E detected \in DetectedSubscriptions : confirm_calculate(1, "u1", detected)
ConfirmAdvance == confirm_advance(1)
ConfirmInsert == confirm_insert(1)

NextConfirm == ConfirmCalculate \/ ConfirmAdvance \/ ConfirmInsert

\* the handler is a sequence of statements run by one task of the server: a
\* request that has a next statement executes it
SpecConfirm ==
    /\ Init /\ [][NextConfirm]_vars
    /\ WF_vars(ConfirmAdvance) /\ WF_vars(ConfirmInsert)

----------------------------------------------------------------------------
(* Repeated process-due runs: subscriptions that are overdue by one or more  *)
(* periods, and runs of POST /subscriptions/process-due served one after     *)
(* the other, every store access succeeding.                                 *)

RECURSIVE periods_overdue(_, _)
\* the number of periods after which next_due_date is later than today
periods_overdue(next_due_date, frequency) ==
    IF ~DateLE(next_due_date, Today) THEN 0
    ELSE 1 + (CHOOSE k \in {periods_overdue(next, frequency) :
                next \in {calculate_next_due_date(next_due_date, frequency)}} : TRUE)

RECURSIVE runs_needed(_)
\* the transactions the runs store until no subscription of subs is due
runs_needed(subs) ==
    IF subs = {} THEN 0
    ELSE LET s == CHOOSE x \in subs : TRUE
         IN (IF s.is_active /\ ~no_account_id(s)
             THEN periods_overdue(s.next_due_date, s.frequency) ELSE 0)
            + runs_needed(subs \ {s})

\* the bodies of POST /subscriptions the runs are checked on: overdue by one,
\* two and three periods, due today, due after today, without a linked
\* account, and not active
RunCreates ==
    {[estimated_amount |-> 100,
      next_due_date |-> [year |-> b[1], month |-> b[2], day |-> b[3]],
      frequency |-> b[4], account_id |-> b[5], category_id |-> b[6], is_active |-> b[7]] :
        b \in {<<2024, 2, 27, "weekly", "a1", "c1", TRUE>>,
               <<2024, 2, 20, "weekly", "a1", NULL, TRUE>>,
               <<2024, 2, 13, "weekly", "a1", "c1", TRUE>>,
               <<2024, 1, 31, "monthly", "a1", "c1", TRUE>>,
               <<2024, 2, 29, "monthly", "a1", NULL, TRUE>>,
               <<2023, 2, 28, "yearly", "a1", "c1", TRUE>>,
               <<2024, 3, 15, "monthly", "a1", "c1", TRUE>>,
               <<2024, 2, 20, "weekly", NULL, "c1", TRUE>>,
               <<2024, 2, 20, "weekly", "a1", "c1", FALSE>>}}

\* a subscription is created; the model creates only as many overdue periods
\* as the runs can post within its bound on the stored transactions
CreateForRuns ==
    \E data \in RunCreates :
        /\ (next_txn_id - 1) + runs_needed(subscriptions)
              + (IF data.is_active /\ ~no_account_id(data)
                 THEN periods_overdue(data.next_due_date, data.frequency) ELSE 0)
              <= MaxTxns
        /\ create_subscription("u1", data)

\* one run for the first user
ProcessDueRun ==
    \E rows \in OrderingsOf(due_subscriptions(subscriptions, "u1")) :
        process_due_subscriptions("u1", rows)

NextRuns == CreateForRuns \/ ProcessDueRun

\* the runs are repeated: a run that would change something takes place
SpecRuns == Init /\ [][NextRuns]_vars /\ WF_vars(ProcessDueRun)

----------------------------------------------------------------------------
(* What the ledger is specified to do, in the specification's own terms. *)

\* the signed effect of a transaction on its account
SignedEffect(t) ==
    IF t.transaction_type = "expense" THEN 0 - t.amount
    ELSE IF t.transaction_type = "income" THEN t.amount
    ELSE 0

\* the effect of a transaction on the balance of account a
EffectOnAccount(t, a) == IF t.account_id = a THEN SignedEffect(t) ELSE 0

\* the effect of a transaction on the activity of category c
EffectOnCategory(t, c) ==
    IF t.transaction_type = "expense" /\ t.category_id = c THEN t.amount ELSE 0

\* the stored row with this id
RowIn(txns, id) == CHOOSE t \in txns : t.id = id

\* every transaction body a request can carry
AnyTransactionCreates ==
    [account_id : AccountIds, category_id : {NULL} \cup CategoryIds,
     amount : Amounts \cup PatchAmounts, transaction_type : TransactionTypes]

PostStep == last'.op = "post" /\ last'.status = 201
VoidStep == last'.op = "void" /\ last'.status = 204
AmendStep == last'.op = "amend" /\ last'.status = 200

(* C1: in every reachable state each account's balance is its opening balance
   plus the signed effects of the transactions stored for it, and each
   category's activity is the sum of the amounts of the stored expense
   transactions that carry it. *)
C1_BalanceIsSumOfStoredEffects ==
    /\ \A a \in AccountIds :
         accounts[a].balance =
            OpeningBalance[a]
            + SumOf(transactions, [t \in transactions |-> EffectOnAccount(t, a)])
    /\ \A c \in CategoryIds :
         categories[c].activity_amount =
            SumOf(transactions, [t \in transactions |-> EffectOnCategory(t, c)])

(* C2: after an amend, balances and activities are what they would be had the
   original transaction never been posted and the patched one been posted
   instead. *)
C2_AmendReplacesEffect ==
    [][AmendStep =>
        LET old == RowIn(transactions, last'.id)
            new == RowIn(transactions', last'.id)
        IN /\ \A a \in AccountIds :
                accounts'[a].balance =
                    accounts[a].balance - EffectOnAccount(old, a) + EffectOnAccount(new, a)
           /\ \A c \in CategoryIds :
                categories'[c].activity_amount =
                    categories[c].activity_amount - EffectOnCategory(old, c)
                        + EffectOnCategory(new, c)]_vars

(* C3: posting a transaction and then voiding it restores every balance and
   every activity exactly and removes the transaction, for every type, from
   every reachable state; and after any number of post/void cycles (no amend
   in between) with no transaction left, the balances are the opening ones
   and the activities are zero. *)
C3_PostThenVoidRestores ==
    /\ \A user \in Users, data \in AnyTransactionCreates :
         LET txn == new_row(next_txn_id, user, data)
             p == ledger_after_post(accounts, categories, transactions, txn)
             v == ledger_after_void(p.accounts, p.categories, p.transactions, txn)
         IN /\ txn \in p.transactions
            /\ v.accounts = accounts
            /\ v.categories = categories
            /\ v.transactions = transactions
    /\ (n_amend = 0 /\ transactions = {}) =>
         /\ \A a \in AccountIds : accounts[a].balance = OpeningBalance[a]
         /\ \A c \in CategoryIds : categories[c].activity_amount = 0

\* two posts have been voided again and the opening balances are back
C3_Witness ==
    /\ last.op = "void" /\ last.status = 204
    /\ next_txn_id = 3 /\ n_amend = 0 /\ transactions = {}
    /\ accounts["a1"].balance = OpeningBalance["a1"]

(* C4: a successful post changes the balance of the transaction's account by
   -amount for an expense, +amount for an income and 0 for a transfer, the
   change is in the store when the response is given, and no other account
   changes. *)
C4_PostAppliesSignedDelta ==
    [][PostStep =>
        LET txn == RowIn(transactions', last'.id)
        IN /\ txn \notin transactions
           /\ accounts'[txn.account_id].balance =
                accounts[txn.account_id].balance
                  + (CASE txn.transaction_type = "expense" -> 0 - txn.amount
                       [] txn.transaction_type = "income" -> txn.amount
                       [] txn.transaction_type = "transfer" -> 0)
           /\ \A a \in AccountIds \ {txn.account_id} : accounts'[a] = accounts[a]
           /\ accounts'[txn.account_id].is_active = accounts[txn.account_id].is_active]_vars

\* an income has just been posted on the first account, which holds it
C4_Witness ==
    /\ last.op = "post" /\ last.status = 201
    /\ \E t \in transactions :
         /\ t.id = last.id /\ t.transaction_type = "income" /\ t.account_id = "a1"
         /\ Cardinality(transactions) = 1
         /\ accounts["a1"].balance = OpeningBalance["a1"] + t.amount

(* C5: a category's activity changes only in a post or a void of an expense
   that carries that category; a post or a void of an income or a transfer
   (even with a category), or of an expense without a category, changes no
   activity; no post and no void changes an assigned amount. *)
C5_ActivityOnlyFromCategorisedExpense ==
    [][/\ \A c \in CategoryIds :
            categories'[c].activity_amount # categories[c].activity_amount =>
                \/ PostStep /\ LET t == RowIn(transactions', last'.id)
                               IN t.transaction_type = "expense" /\ t.category_id = c
                \/ VoidStep /\ LET t == RowIn(transactions, last'.id)
                               IN t.transaction_type = "expense" /\ t.category_id = c
       /\ PostStep =>
            LET t == RowIn(transactions', last'.id)
            IN (t.transaction_type # "expense" \/ t.category_id = NULL) =>
                    categories' = categories
       /\ VoidStep =>
            LET t == RowIn(transactions, last'.id)
            IN (t.transaction_type # "expense" \/ t.category_id = NULL) =>
                    categories' = categories
       /\ (PostStep \/ VoidStep) =>
            \A c \in CategoryIds :
                categories'[c].assigned_amount = categories[c].assigned_amount]_vars

\* an income that carries a category has just been posted and the category's
\* activity is still zero
C5_Witness ==
    /\ last.op = "post" /\ last.status = 201
    /\ \E t \in transactions :
         /\ t.id = last.id /\ t.transaction_type = "income" /\ t.category_id = "c1"
    /\ categories["c1"].activity_amount = 0

----------------------------------------------------------------------------
(* What the allocator is specified to do, in the specification's own terms. *)

\* the sum of the balances of the owner's active accounts
ActiveBalance(accs, u) ==
    LET ids == {a \in AccountIds : accs[a].user_id = u /\ accs[a].is_active = TRUE}
    IN SumOf(ids, [a \in ids |-> accs[a].balance])

\* the sum of the assigned amounts of the owner's categories that are not hidden
VisibleAssigned(cats, u) ==
    LET ids == {c \in CategoryIds : cats[c].user_id = u /\ cats[c].is_hidden = FALSE}
    IN SumOf(ids, [c \in ids |-> cats[c].assigned_amount])

\* the sum of the activity of the owner's categories that are not hidden
VisibleActivity(cats, u) ==
    LET ids == {c \in CategoryIds : cats[c].user_id = u /\ cats[c].is_hidden = FALSE}
    IN SumOf(ids, [c \in ids |-> cats[c].activity_amount])

ToBeBudgeted(accs, cats, u) == ActiveBalance(accs, u) - VisibleAssigned(cats, u)

\* the summary the specification asks for
SummaryOf(accs, cats, u) ==
    [to_be_budgeted |-> ActiveBalance(accs, u) - VisibleAssigned(cats, u),
     total_balance |-> ActiveBalance(accs, u),
     total_assigned |-> VisibleAssigned(cats, u),
     total_spent |-> VisibleActivity(cats, u)]

\* a category that exists and belongs to the user
Owns(u, c) == c \in CategoryIds /\ CategoryOwner[c] = u

SummaryStep == last'.op = "summary"
AssignStep == last'.op = "assign"
MoveStep == last'.op = "move"

(* C6: in every reachable state the budget summary of an owner is
   to_be_budgeted = (sum of the balances of the owner's active accounts) -
   (sum of the assigned amounts of the owner's non-hidden categories), with
   total_balance, total_assigned and total_spent the corresponding sums; a
   summary request returns it and changes no record. *)
C6_SummaryIsDerivedAndReadOnly ==
    [][/\ \A u \in Users :
            /\ get_budget_summary(accounts, categories, u) = SummaryOf(accounts, categories, u)
            /\ get_budget_summary(accounts', categories', u)
                    = SummaryOf(accounts', categories', u)
       /\ SummaryStep =>
            /\ last'.status = 200
            /\ last'.body = SummaryOf(accounts', categories', last'.user)
            /\ last'.body.to_be_budgeted = last'.body.total_balance - last'.body.total_assigned
            /\ UNCHANGED <<accounts, categories, transactions, next_txn_id>>]_vars

\* a summary was returned to the first user while one of their accounts is
\* inactive, one of their categories hidden with money assigned, and an
\* expense has been posted
C6_Witness ==
    /\ last.op = "summary" /\ last.user = "u1"
    /\ ~accounts["a2"].is_active /\ accounts["a2"].balance # 0
    /\ categories["c2"].is_hidden /\ categories["c2"].assigned_amount # 0
    /\ categories["c2"].activity_amount # 0
    /\ categories["c1"].assigned_amount # 0
    /\ last.body.to_be_budgeted = 1000 - categories["c1"].assigned_amount

(* C7: an assign on a category the caller owns adds exactly the amount to
   that category's assigned amount and changes no account, no activity and no
   other category, so to_be_budgeted drops by the amount when the category is
   visible: with a balance of 1000 and one assign of 300 it is 700.  An
   assign on any other category changes nothing. *)
C7_AssignAddsDelta ==
    [][AssignStep =>
        LET c == last'.category_id
            d == last'.amount
            u == last'.user
        IN /\ last'.status = 200 <=> Owns(u, c)
           /\ accounts' = accounts
           /\ transactions' = transactions
           /\ ~Owns(u, c) => categories' = categories
           /\ Owns(u, c) =>
                /\ categories'[c].assigned_amount = categories[c].assigned_amount + d
                /\ categories'[c].activity_amount = categories[c].activity_amount
                /\ categories'[c].is_hidden = categories[c].is_hidden
                /\ \A o \in CategoryIds \ {c} : categories'[o] = categories[o]
                /\ ~categories[c].is_hidden =>
                      ToBeBudgeted(accounts', categories', u)
                        = ToBeBudgeted(accounts, categories, u) - d
                /\ (/\ ~categories[c].is_hidden
                    /\ n_assign' = 1 /\ d = 300
                    /\ ActiveBalance(accounts, u) = 1000) =>
                      get_to_be_budgeted(accounts', categories', u) = 700]_vars

\* the first assign, of 300, was served while the active balance is 1000, and
\* to_be_budgeted is 700
C7_Witness ==
    /\ last.op = "assign" /\ last.status = 200 /\ last.user = "u1" /\ last.amount = 300
    /\ n_assign = 1
    /\ ~categories[last.category_id].is_hidden
    /\ ActiveBalance(accounts, "u1") = 1000
    /\ get_to_be_budgeted(accounts, categories, "u1") = 700

(* C8: a successful move takes exactly the amount from the source's assigned
   amount and adds exactly the amount to the target's, so their sum is
   unchanged, and it changes no other category, no activity and no account. *)
C8_MoveConserves ==
    [][(MoveStep /\ last'.status = 200) =>
        LET f == last'.req.from_category_id
            t == last'.req.to_category_id
            m == last'.req.amount
        IN /\ categories'[f].assigned_amount = categories[f].assigned_amount - m
           /\ categories'[t].assigned_amount = categories[t].assigned_amount + m
           /\ categories'[f].assigned_amount + categories'[t].assigned_amount
                = categories[f].assigned_amount + categories[t].assigned_amount
           /\ \A c \in CategoryIds \ {f, t} : categories'[c] = categories[c]
           /\ \A c \in CategoryIds :
                /\ categories'[c].activity_amount = categories[c].activity_amount
                /\ categories'[c].is_hidden = categories[c].is_hidden
           /\ accounts' = accounts
           /\ transactions' = transactions]_vars

\* 100 has just been moved from the first category, which held 300, to the second
C8_Witness ==
    /\ last.op = "move" /\ last.status = 200
    /\ last.req = [from_category_id |-> "c1", to_category_id |-> "c2", amount |-> 100]
    /\ categories["c1"].assigned_amount = 200
    /\ categories["c2"].assigned_amount = 100

(* C9: a move is rejected and changes no assigned amount whenever the amount
   is not positive, or source and target are the same category, or either
   category is missing or not the caller's, or the amount is greater than the
   source's assigned amount. *)
C9_MoveRejectedLeavesAssigned ==
    [][MoveStep =>
        LET f == last'.req.from_category_id
            t == last'.req.to_category_id
            m == last'.req.amount
            u == last'.user
        IN (\/ m <= 0
            \/ f = t
            \/ ~Owns(u, f)
            \/ ~Owns(u, t)
            \/ (Owns(u, f) /\ m > categories[f].assigned_amount)) =>
                /\ last'.status # 200
                /\ categories' = categories]_vars

\* a move of more than the source holds was rejected while the source holds money
C9_Witness ==
    /\ last.op = "move" /\ last.status = 400
    /\ last.detail = "Insufficient funds in source category"
    /\ categories[last.req.from_category_id].assigned_amount > 0
    /\ last.req.amount > categories[last.req.from_category_id].assigned_amount

\* the source holds what the request read minus the amount and the target
\* still holds what the request read
HalfApplied(cats, req, from_assigned, to_assigned) ==
    /\ cats[req.from_category_id].assigned_amount = from_assigned - req.amount
    /\ cats[req.to_category_id].assigned_amount = to_assigned

(* C10: a move is atomic: no reachable state, neither one another request can
   read while the move is served nor one left behind when the move's second
   write fails, has the source decremented and the target not incremented. *)
C10_MoveIsAtomic ==
    /\ ~(/\ mv.pc = "write_to"
         /\ HalfApplied(categories, mv.req, mv.from_assigned, mv.to_assigned))
    /\ ~(/\ mv.pc = "write_to"
         /\ last.op = "list_categories" /\ last.user = mv.user
         /\ {mv.req.from_category_id, mv.req.to_category_id} \subseteq DOMAIN last.body
         /\ last.body[mv.req.from_category_id] = mv.from_assigned - mv.req.amount
         /\ last.body[mv.req.to_category_id] = mv.to_assigned)
    /\ ~(/\ last.op = "move" /\ last.status = 500
         /\ HalfApplied(categories, last.req, last.from_assigned, last.to_assigned))

----------------------------------------------------------------------------
(* Ownership and validation of a post, balance frame of the account         *)
(* endpoints.                                                               *)

\* the account belongs to the user
OwnsAccount(u, a) == a \in AccountIds /\ AccountOwner[a] = u

(* C12: a post whose account, or whose category when one is given, is missing
   or belongs to another owner than the caller is rejected as not found,
   stores no transaction and changes no balance and no activity. *)
C12_PostRejectsForeignAccountOrCategory ==
    [][last'.op = "post" =>
        \/ /\ last'.status = 201
           /\ LET row == RowIn(transactions', last'.id)
              IN /\ OwnsAccount(last'.user, row.account_id)
                 /\ row.category_id # NULL => Owns(last'.user, row.category_id)
        \/ /\ last'.status = 404
           /\ UNCHANGED <<accounts, categories, transactions>>]_vars

(* C13: a post with an amount that is not positive is rejected and stores
   nothing, so every stored transaction has a positive amount. *)
C13_StoredAmountsArePositive ==
    \A t \in transactions : t.amount > 0

(* C14: no operation served for one owner changes the balance of an account,
   the assigned or activity amount of a category, or a transaction that
   belongs to another owner. *)
C14_NoCrossOwnerEffect ==
    [][/\ \A a \in AccountIds :
            AccountOwner[a] # last'.user => accounts'[a] = accounts[a]
       /\ \A c \in CategoryIds :
            CategoryOwner[c] # last'.user => categories'[c] = categories[c]
       /\ {t \in transactions' : t.user_id # last'.user}
            = {t \in transactions : t.user_id # last'.user}]_vars

(* C17: the account update and the account deactivation leave every balance
   unchanged; only ledger operations change a balance. *)
C17_AccountEndpointsKeepBalance ==
    [][last'.op \in {"update_account", "delete_account"} =>
        \A a \in AccountIds : accounts'[a].balance = accounts[a].balance]_vars

(* C18: in every category response, after any sequence of posts and assigns,
   available_amount equals assigned_amount minus activity_amount of the same
   record.  The three fields are the Decimals of three floats, and the
   Decimal of a float is the amount of n hundredths exactly when the float
   is float(n / 100). *)
C18_AvailableIsAssignedMinusActivity ==
    [][(last'.op = "get_category" /\ last'.status = 200) =>
        LET row == categories[last'.id]
        IN /\ last'.body.assigned_amount = float_of_cents(row.assigned_amount)
           /\ last'.body.activity_amount = float_of_cents(row.activity_amount)
           /\ last'.body.available_amount
                = float_of_cents(row.assigned_amount - row.activity_amount)]_vars

(* C11: when posts and voids that touch the same account or category are
   served at the same time, in every interleaving the final balance and
   activity reflect every one of them: once no request is in flight, each
   balance is the opening balance plus the effects of the stored
   transactions and each activity is the sum of the stored categorised
   expenses (no update is lost). *)
C11_ConcurrentPostsLoseNoUpdate ==
    (\A slot \in Slots : rq[slot].pc = "idle") =>
        /\ \A a \in AccountIds :
             accounts[a].balance =
                OpeningBalance[a]
                + SumOf(transactions, [t \in transactions |-> EffectOnAccount(t, a)])
        /\ \A c \in CategoryIds :
             categories[c].activity_amount =
                SumOf(transactions, [t \in transactions |-> EffectOnCategory(t, c)])

(* C15: a post is all-or-nothing: when one of its store accesses fails, the
   request reports an error and the store holds no new transaction, and the
   balance and the activity it had already written are back at the values
   it read. *)
C15_PostIsAllOrNothing ==
    [][\A slot \in Slots :
        (/\ rq[slot].pc # "idle" /\ rq[slot].op = "post"
         /\ rq'[slot].pc = "idle"
         /\ last'.op = "post" /\ last'.status = 500 /\ last'.id = rq[slot].txn.id) =>
            /\ \A t \in transactions' : t.id # rq[slot].txn.id
            /\ rq[slot].pc \in {"read_activity", "write_activity"} =>
                  accounts'[rq[slot].txn.account_id].balance = rq[slot].current_balance]_vars

----------------------------------------------------------------------------
(* What a stored transaction is specified to have done to the tables. *)

\* a request that stored a transaction and reported success
StoredAndReported ==
    \/ last'.op = "post" /\ last'.status = 201
    \/ last'.op = "approve" /\ last'.status = 200
    \/ last'.op = "create_from_sms" /\ last'.success
    \/ last'.op = "auto_process_sms" /\ last'.processed

(* C16: every operation that stores a transaction and reports success has
   applied the transaction's signed delta to the balance of its account and,
   for an expense with a category, added its amount to the activity of the
   category, when it returns. *)
C16_StoredTransactionIsApplied ==
    [][StoredAndReported =>
        LET t == RowIn(transactions', last'.id)
        IN /\ transactions' = transactions \cup {t}
           /\ t \notin transactions
           /\ \A a \in AccountIds :
                 accounts'[a].balance = accounts[a].balance + EffectOnAccount(t, a)
           /\ \A c \in CategoryIds :
                 categories'[c].activity_amount =
                    categories[c].activity_amount + EffectOnCategory(t, c)]_vars

----------------------------------------------------------------------------
(* What processDue is specified to do, in the specification's own terms. *)

ProcessDueStep == last'.op = "process_due"

\* the results of the run that are about subscription id
ResultsFor(details, id) ==
    {i \in DOMAIN details : details[i].subscription_id = id}

\* the results of the run with this status
ResultsWith(details, status) ==
    {i \in DOMAIN details : details[i].status = status}

(* C19: a processDue run reports, for every due subscription of the owner
   that has no linked account, exactly one result, skipped with reason
   no_account_id, and leaves the subscription as it was, next_due_date
   included; the run stores one transaction per processed result and none
   for a skipped one, so a run in which every due subscription lacks an
   account changes no balance, no activity and no transaction; and no
   subscription without a linked account is ever reported as processed. *)
C19_NoAccountIsSkippedAndUntouched ==
    [][ProcessDueStep =>
        LET details == last'.details
            due == due_subscriptions(subscriptions, last'.user)
        IN /\ \A s \in due : s.account_id = NULL =>
                /\ Cardinality(ResultsFor(details, s.id)) = 1
                /\ \A i \in ResultsFor(details, s.id) :
                      details[i].status = "skipped" /\ details[i].reason = "no_account_id"
                /\ s \in subscriptions'
           /\ Cardinality(transactions') =
                Cardinality(transactions) + Cardinality(ResultsWith(details, "processed"))
           /\ transactions \subseteq transactions'
           /\ (\A s \in due : s.account_id = NULL) =>
                /\ accounts' = accounts
                /\ categories' = categories
                /\ transactions' = transactions
                /\ subscriptions' = subscriptions
           /\ \A i \in ResultsWith(details, "processed") :
                \A s \in subscriptions :
                    s.id = details[i].subscription_id => s.account_id # NULL]_vars

\* a run has skipped a due subscription without a linked account and
\* processed another one, and the skipped one is still due
C19_Witness ==
    /\ last.op = "process_due"
    /\ ResultsWith(last.details, "processed") # {}
    /\ \E i \in ResultsWith(last.details, "skipped") :
          \E s \in subscriptions :
              /\ s.id = last.details[i].subscription_id
              /\ s.account_id = NULL
              /\ s.category_id # NULL
              /\ DateLE(s.next_due_date, Today)

\* the subscriptions, as they were before the run, that the run reports as
\* processed
ProcessedBy(details) ==
    {s \in subscriptions :
        \E i \in ResultsWith(details, "processed") : details[i].subscription_id = s.id}

(* C20: whenever a processDue run reports a subscription as processed, the
   run has stored exactly one new expense transaction for it (amount the
   estimated amount, account the linked account, category the
   subscription's category, date the due date before the run), the balance
   of the linked account has decreased by exactly the estimated amounts of
   the processed subscriptions linked to it, the activity of each category
   has increased by the amounts of the processed subscriptions that carry
   it, and the subscription's next_due_date is the next due date of its
   due date before the run. *)
C20_ProcessedIsPostedAndAdvanced ==
    [][ProcessDueStep =>
        LET details == last'.details
            processed == ProcessedBy(details)
        IN /\ \A i \in ResultsWith(details, "processed") :
                \E s \in processed :
                    /\ s.id = details[i].subscription_id
                    /\ \E t \in transactions' \ transactions :
                          /\ t.id = details[i].transaction_id
                          /\ t.amount = s.estimated_amount
                          /\ t.account_id = s.account_id
                          /\ t.category_id = s.category_id
                          /\ t.transaction_type = "expense"
                          /\ t.transaction_date = s.next_due_date
                    /\ \E n \in subscriptions' :
                          /\ n.id = s.id
                          /\ n.next_due_date =
                                calculate_next_due_date(s.next_due_date, s.frequency)
           /\ Cardinality(transactions' \ transactions) = Cardinality(processed)
           /\ \A s \in processed :
                /\ s.account_id \in DOMAIN accounts
                /\ accounts'[s.account_id].balance =
                      accounts[s.account_id].balance
                      - SumOf({p \in processed : p.account_id = s.account_id},
                              [p \in processed |-> p.estimated_amount])
           /\ \A c \in CategoryIds :
                categories'[c].activity_amount =
                    categories[c].activity_amount
                    + SumOf({p \in processed : p.category_id = c},
                            [p \in processed |-> p.estimated_amount])]_vars

----------------------------------------------------------------------------
(* What a process-due run is specified to do when a store access fails or   *)
(* when another run is served at the same time.                             *)

\* a step in which the store access of the run in this slot raises
DueFailStep(slot) ==
    /\ rq[slot].pc \in DueStorePcs /\ rq[slot].op = "process_due"
    /\ rq'[slot] # rq[slot]
    /\ n_fail' = n_fail + 1

\* the result a step gives the row the run in this slot is at
ResultOfStep(slot) == rq'[slot].details[Len(rq[slot].details) + 1]

\* the results with status error, over the runs in flight
ErrorResults(details) == {i \in DOMAIN details : details[i].status = "error"}

(* C21: when a store access of processing a due subscription fails
   (transaction insert, account read or write, category read or write,
   due-date write), the result for that subscription is error with a
   reason, and no next_due_date changes in that step; a next_due_date
   changes only in the step that gives its subscription the processed
   result. *)
C21_FailureGivesErrorAndKeepsDueDate ==
    [][(\A slot \in Slots : DueFailStep(slot) =>
            /\ ResultOfStep(slot).subscription_id = Head(rq[slot].rows).id
            /\ ResultOfStep(slot).status = "error"
            /\ ResultOfStep(slot).reason = "store_error"
            /\ subscriptions' = subscriptions)
       /\ ((\E s \in subscriptions : s \notin subscriptions') =>
            \E slot \in Slots :
                /\ rq[slot].pc = "write_due" /\ rq[slot].op = "process_due"
                /\ rq'[slot] # rq[slot]
                /\ ~DueFailStep(slot)
                /\ ResultOfStep(slot).status = "processed"
                /\ \A s \in subscriptions :
                      s \notin subscriptions' => s.id = ResultOfStep(slot).subscription_id)]_vars

\* the write of the due date has failed for a subscription whose balance
\* was already written, the run has reported the error, and the
\* subscription is still due
C21_Witness ==
    /\ last.op = "process_due"
    /\ \E i \in ErrorResults(last.details) :
          \E s \in subscriptions :
              /\ s.id = last.details[i].subscription_id
              /\ DateLE(s.next_due_date, Today)
              /\ s.account_id \in AccountIds
              /\ accounts[s.account_id].balance < OpeningBalance[s.account_id]

(* C22: when processing a due subscription ends with the error result, no
   ledger effect of it remains: the transaction the run inserted for it is
   not stored, and the balance the run had written is back at the value it
   read. *)
C22_ErrorLeavesNoLedgerEffect ==
    [][\A slot \in Slots : (DueFailStep(slot) /\ rq[slot].pc # "insert") =>
            /\ \A t \in transactions' : t.id # rq[slot].txn_id
            /\ (rq[slot].pc = "read_activity"
                /\ Head(rq[slot].rows).account_id \in DOMAIN accounts) =>
                  accounts'[Head(rq[slot].rows).account_id].balance = rq[slot].current]_vars

(* C23: a process-due run returns exactly one result (processed, skipped or
   error) for every subscription that was due at its start, in the order
   it read them, and the run has no more error results than store accesses
   have failed: a failure while one subscription is processed does not keep
   the rows after it from being processed. *)
C23_OneOutcomePerDueSubscription ==
    [][\A slot \in Slots :
        (rq[slot].pc = "return" /\ rq[slot].op = "process_due" /\ rq'[slot].pc = "idle") =>
            /\ Len(last'.details) = Len(last'.due)
            /\ \A i \in DOMAIN last'.due :
                  /\ last'.details[i].subscription_id = last'.due[i].id
                  /\ last'.details[i].status \in {"processed", "skipped", "error"}
            /\ Cardinality(ErrorResults(last'.details)) <= n_fail]_vars

\* a run has returned an error for the first row it read and has processed
\* the row after it
C23_Witness ==
    /\ last.op = "process_due"
    /\ Len(last.details) = 2
    /\ last.details[1].status = "error"
    /\ last.details[2].status = "processed"
    /\ last.details[2].transaction_id \in {t.id : t \in transactions}

(* C24: when two process-due runs overlap on the same due subscription, at
   most one transaction is posted for that due date: no two runs hold, each
   for the same subscription and the same due date, a transaction of their
   own in the store. *)
C24_OverlappingRunsPostOnce ==
    \A s1 \in Slots, s2 \in Slots :
        ~(/\ s1 # s2
          /\ rq[s1].pc \in DueStorePcs \ {"insert"}
          /\ rq[s2].pc \in DueStorePcs \ {"insert"}
          /\ rq[s1].op = "process_due" /\ rq[s2].op = "process_due"
          /\ Head(rq[s1].rows).id = Head(rq[s2].rows).id
          /\ Head(rq[s1].rows).next_due_date = Head(rq[s2].rows).next_due_date
          /\ rq[s1].txn_id # rq[s2].txn_id
          /\ {rq[s1].txn_id, rq[s2].txn_id} \subseteq {t.id : t \in transactions})

\* a subscription processDue(owner) is specified to act on
IsDueFor(s, owner) ==
    s.is_active /\ DateLE(s.next_due_date, Today) /\ s.user_id = owner

(* C25: a processDue run of an owner acts only on the subscriptions that are
   active, have next_due_date <= today and belong to that owner: every other
   subscription keeps its row and gets no result, every transaction the run
   stores carries the owner, amount, account, category and due date of one
   of the owner's due subscriptions, and a balance or an activity changes
   only on the account or the category of such a subscription. *)
C25_OnlyDueSubscriptionsOfOwner ==
    [][ProcessDueStep =>
        LET owner == last'.user
        IN /\ \A s \in subscriptions : ~IsDueFor(s, owner) =>
                /\ s \in subscriptions'
                /\ ResultsFor(last'.details, s.id) = {}
           /\ \A t \in transactions' \ transactions :
                \E s \in subscriptions :
                    /\ IsDueFor(s, owner)
                    /\ t.user_id = owner
                    /\ t.amount = s.estimated_amount
                    /\ t.account_id = s.account_id
                    /\ t.category_id = s.category_id
                    /\ t.transaction_date = s.next_due_date
           /\ \A a \in AccountIds : accounts'[a] # accounts[a] =>
                \E s \in subscriptions : IsDueFor(s, owner) /\ s.account_id = a
           /\ \A c \in CategoryIds : categories'[c] # categories[c] =>
                \E s \in subscriptions : IsDueFor(s, owner) /\ s.category_id = c]_vars

\* a run of the first user has processed a subscription while the store
\* holds another subscription that is past due but not for this run: one of
\* this user that is not active, or one of the second user
C25_Witness ==
    /\ last.op = "process_due" /\ last.user = "u1"
    /\ ResultsWith(last.details, "processed") # {}
    /\ \E s \in subscriptions :
          /\ DateLE(s.next_due_date, Today)
          /\ ~s.is_active \/ s.user_id = "u2"
          /\ ResultsFor(last.details, s.id) = {}
          /\ s.account_id \in AccountIds

----------------------------------------------------------------------------
(* What nextDueDate is specified to return. *)

MinOf(a, b) == IF a <= b THEN a ELSE b

\* whether e is nextDueDate(d, frequency) as the specification words it
IsNextDueDate(e, d, frequency) ==
    /\ ValidDate(e.year, e.month, e.day)
    /\ frequency = "weekly" => Ordinal(e) = Ordinal(d) + 7
    /\ frequency = "monthly" =>
          /\ e.year = (IF d.month = 12 THEN d.year + 1 ELSE d.year)
          /\ e.month = (IF d.month = 12 THEN 1 ELSE d.month + 1)
          /\ e.day = MinOf(d.day, DaysInMonth(e.year, e.month))
    /\ frequency = "yearly" =>
          /\ e.year = d.year + 1
          /\ e.month = d.month
          /\ e.day = (IF d.month = 2 /\ d.day = 29 /\ ~IsLeap(d.year + 1) THEN 28
                      ELSE d.day)

\* the date of the one subscription of the store
TheDueDate(subs) == (CHOOSE s \in subs : TRUE).next_due_date

(* C26: for every date d, the next due date is d + 7 days for weekly; for
   monthly the date in the following calendar month (January of the next
   year after December) whose day is min(day(d), last day of that month);
   for yearly the same month and day in the next year, except that Feb 29
   becomes Feb 28 when the next year is not a leap year.  In particular
   2024-01-31 monthly gives 2024-02-29, 2023-01-31 monthly gives 2023-02-28
   and 2024-02-29 yearly gives 2025-02-28. *)
C26_NextDueDateIsCalendarAware ==
    [][(last'.op = "advance" /\ last'.status = 200) =>
        LET d == TheDueDate(subscriptions)
            e == TheDueDate(subscriptions')
            f == (CHOOSE s \in subscriptions : TRUE).frequency
        IN /\ IsNextDueDate(e, d, f)
           /\ (d = [year |-> 2024, month |-> 1, day |-> 31] /\ f = "monthly") =>
                 e = [year |-> 2024, month |-> 2, day |-> 29]
           /\ (d = [year |-> 2023, month |-> 1, day |-> 31] /\ f = "monthly") =>
                 e = [year |-> 2023, month |-> 2, day |-> 28]
           /\ (d = [year |-> 2024, month |-> 2, day |-> 29] /\ f = "yearly") =>
                 e = [year |-> 2025, month |-> 2, day |-> 28]]_vars

\* a yearly subscription has been advanced to Feb 28 of the year after a
\* leap year, which only the leap day or Feb 28 of that year leads to
C26_Witness ==
    /\ last.op = "advance" /\ last.status = 200
    /\ \E s \in subscriptions :
          /\ s.frequency = "yearly"
          /\ s.next_due_date = [year |-> 2025, month |-> 2, day |-> 28]

----------------------------------------------------------------------------
(* What the detector is specified to return. *)

\* a detection has been served with a list
Detected == last.op = "detect" /\ last.status = 200

\* whether two payee names are one payee: equal when lower-cased and trimmed
SamePayee(a, b) == normalize_payee(a) = normalize_payee(b)

\* the payee groups of the rows of a query, each as the set of its positions
PayeeGroups(rows) ==
    {{j \in 1..Len(rows) : SamePayee(rows[j].payee_name, rows[i].payee_name)} :
        i \in 1..Len(rows)}

\* the consecutive day-gaps of a group
GapsOf(rows, g) ==
    LET marked == [i \in 1..Len(rows) |->
                    IF i \in g THEN Ordinal(rows[i].transaction_date) ELSE 0]
        days == SortedInts(SelectSeq(marked, LAMBDA x : x > 0))
    IN [i \in 1..(Len(days) - 1) |-> days[i + 1] - days[i]]

\* the amounts of a group
AmountsOf(rows, g) == {rows[i].amount : i \in g}

\* the positions in the returned list of the results for a group
ResultsOf(detected, rows, g) ==
    {k \in 1..Len(detected) :
        \E i \in g : SamePayee(detected[k].payee_name, rows[i].payee_name)}

\* the band the mean of the gaps lies in, None if in none: the mean of n
\* gaps is at least b when their sum is at least n * b
BandOf(gaps) ==
    LET n == Len(gaps)
        total == SumSeq(gaps)
    IN IF 5 * n <= total /\ total <= 9 * n THEN "weekly"
       ELSE IF 25 * n <= total /\ total <= 35 * n THEN "monthly"
       ELSE IF 350 * n <= total /\ total <= 380 * n THEN "yearly"
       ELSE NULL

\* gaps that are all the same
Steady(gaps) == \A i, j \in 1..Len(gaps) : gaps[i] = gaps[j]

(* C27: the detector classifies a payee group from the mean of its
   consecutive day-gaps: weekly when 5 <= mean <= 9, monthly when
   25 <= mean <= 35, yearly when 350 <= mean <= 380, and it discards the
   group for any other mean (gaps [30,31,29] are monthly, [6,7,8] are weekly,
   [400] is discarded); groups of fewer than two transactions are discarded.
   A group of one positive amount is reported when its gaps are all the
   same, or are one of the quoted examples. *)
C27_ClassifiedByMeanGap ==
    Detected =>
        \A g \in PayeeGroups(last.rows) :
            LET gaps == GapsOf(last.rows, g)
                results == ResultsOf(last.detected, last.rows, g)
                one_amount == \E a \in AmountsOf(last.rows, g) :
                                a > 0 /\ AmountsOf(last.rows, g) = {a}
            IN /\ Cardinality(g) < 2 => results = {}
               /\ (Cardinality(g) >= 2 /\ BandOf(gaps) = NULL) => results = {}
               /\ \A k \in results : last.detected[k].frequency = BandOf(gaps)
               /\ (Cardinality(g) >= 2 /\ BandOf(gaps) # NULL /\ one_amount
                        /\ (Steady(gaps) \/ gaps \in {<<30, 31, 29>>, <<6, 7, 8>>}))
                    => results # {}
               /\ gaps = <<30, 31, 29>> => BandOf(gaps) = "monthly"
               /\ gaps = <<6, 7, 8>> => BandOf(gaps) = "weekly"
               /\ gaps = <<400>> => BandOf(gaps) = NULL

\* a detection has returned a weekly pattern for a group with the gaps 6, 7, 8
C27_Witness ==
    /\ Detected
    /\ \E g \in PayeeGroups(last.rows) :
          /\ GapsOf(last.rows, g) = <<6, 7, 8>>
          /\ \E k \in ResultsOf(last.detected, last.rows, g) :
                last.detected[k].frequency = "weekly"

\* the confidence of a result in hundredths
Hundredths(result) == round_2(result.confidence)

(* C28: every result returned by the detector has confidence >= 0.5 and
   transaction_count >= 2, at most one result exists per normalized
   (lower-cased, trimmed) payee, and the returned list is ordered by
   non-increasing confidence. *)
C28_ResultsFilteredUniqueSorted ==
    Detected =>
        LET detected == last.detected
        IN /\ \A k \in 1..Len(detected) :
                /\ Hundredths(detected[k]) >= 50
                /\ detected[k].transaction_count >= 2
           /\ \A j, k \in 1..Len(detected) :
                SamePayee(detected[j].payee_name, detected[k].payee_name) => j = k
           /\ \A j, k \in 1..Len(detected) :
                j < k => Hundredths(detected[j]) >= Hundredths(detected[k])

\* a detection has returned two results of different confidence, the one
\* found second first, and has dropped a group of two rows or more
C28_Witness ==
    /\ Detected
    /\ Len(last.detected) = 2
    /\ Hundredths(last.detected[1]) > Hundredths(last.detected[2])
    /\ \E i, j \in 1..Len(last.rows) :
          /\ i < j
          /\ SamePayee(last.rows[i].payee_name, last.detected[2].payee_name)
          /\ SamePayee(last.rows[j].payee_name, last.detected[1].payee_name)
          /\ \A h \in 1..(j - 1) :
                ~SamePayee(last.rows[h].payee_name, last.detected[1].payee_name)

\* gaps that each lie in the monthly band
MonthlyGaps(gaps) == \A i \in 1..Len(gaps) : 25 <= gaps[i] /\ gaps[i] <= 35

\* the sample variance of two gaps or more, as the fraction p / q
GapVariance(gaps) ==
    LET n == Len(gaps)
    IN [p |-> n * SumSeq(SquaresOf(gaps)) - SumSeq(gaps) * SumSeq(gaps),
        q |-> n * (n - 1)]

\* 0.6 * max(0, 1 - v / 50) + 0.4 rounded to two decimals, in hundredths: the
\* whole number nearest to N / D, where N / D = 40 + 60 * max(0, 1 - v / 50)
MonthlyHundredths(gaps) ==
    LET v == GapVariance(gaps)
        D == 50 * v.q
        rest == IF D > v.p THEN D - v.p ELSE 0
        N == 40 * D + 60 * rest
    IN CHOOSE h \in 0..100 :
          /\ 2 * (N - h * D) <= D
          /\ 2 * (h * D - N) <= D

\* a group of three expenses or more of the one positive amount a
OneAmountGroup(rows, g, a) ==
    /\ Cardinality(g) >= 3
    /\ a > 0
    /\ AmountsOf(rows, g) = {a}

\* the result at position k reports the group as monthly with confidence h
\* hundredths, amount a and its number of transactions
MonthlyResult(detected, k, g, h, a) ==
    /\ detected[k].frequency = "monthly"
    /\ Hundredths(detected[k]) = h
    /\ detected[k].estimated_amount = a
    /\ detected[k].transaction_count = Cardinality(g)

\* what the analysis of a group's rows finds
PatternOf(rows, g) ==
    analyze_pattern(SelectSeq(rows, LAMBDA t : \E i \in g : SamePayee(t.payee_name, rows[i].payee_name)))

(* C29: for a payee group of k >= 3 expense transactions that all have the
   same positive amount a and whose gaps fall in the monthly band with sample
   variance v, let c be 0.6 * max(0, 1 - v / 50) + 0.4 rounded to two
   decimals. The analysis of the group finds frequency monthly, confidence c,
   estimated_amount a and transaction_count k. When c >= 0.5 the detector
   reports the group with these values; when c < 0.5 it reports nothing for
   the group. For three transactions with
   gaps 30 and 29 or 31 days and amount 49.00 it reports confidence >= 0.9,
   estimated_amount 49.00 and transaction_count 3. *)
C29_MonthlyGroupReportedWhenConfident ==
    Detected =>
        \A g \in PayeeGroups(last.rows) :
            \A a \in AmountsOf(last.rows, g) :
                LET gaps == GapsOf(last.rows, g)
                    results == ResultsOf(last.detected, last.rows, g)
                    h == MonthlyHundredths(gaps)
                    pattern == PatternOf(last.rows, g)
                IN (OneAmountGroup(last.rows, g, a) /\ MonthlyGaps(gaps)) =>
                     /\ pattern.found
                     /\ pattern.result.frequency = "monthly"
                     /\ Hundredths(pattern.result) = h
                     /\ pattern.result.estimated_amount = a
                     /\ pattern.result.transaction_count = Cardinality(g)
                     /\ h >= 50 =>
                          /\ results # {}
                          /\ \A k \in results : MonthlyResult(last.detected, k, g, h, a)
                     /\ h < 50 => results = {}
                     /\ (a = 4900 /\ gaps \in {<<30, 29>>, <<29, 30>>, <<30, 31>>, <<31, 30>>}) =>
                          /\ h >= 90
                          /\ results # {}

(* C29 as first stated: every such group is reported, with frequency
   monthly, confidence 0.6 * max(0, 1 - v / 50) + 0.4 rounded to two
   decimals, estimated_amount a and transaction_count k. *)
C29_MonthlyGroupAlwaysReported ==
    Detected =>
        \A g \in PayeeGroups(last.rows) :
            \A a \in AmountsOf(last.rows, g) :
                LET gaps == GapsOf(last.rows, g)
                    results == ResultsOf(last.detected, last.rows, g)
                IN (OneAmountGroup(last.rows, g, a) /\ MonthlyGaps(gaps)) =>
                     /\ results # {}
                     /\ \A k \in results :
                          MonthlyResult(last.detected, k, g, MonthlyHundredths(gaps), a)

\* a detection has reported three expenses of 49.00 with gaps 30 and 31 as
\* monthly, with confidence 0.99, amount 49.00 and count 3
C29_Witness ==
    /\ Detected
    /\ \E g \in PayeeGroups(last.rows) :
          /\ OneAmountGroup(last.rows, g, 4900)
          /\ GapsOf(last.rows, g) = <<30, 31>>
          /\ \E k \in ResultsOf(last.detected, last.rows, g) :
                MonthlyResult(last.detected, k, g, 99, 4900)

(* What the parser is specified to return. *)

\* a message has been parsed
Parsed == last.op = "parse_sms"

\* the extractor is unavailable, raises, or answers what cannot be parsed
ExtractorFailed(answer) == answer.kind \in {"no_client", "raises", "unparsable"}

\* the extractor answers an object whose amount is a number
ExtractorSucceeded(answer) ==
    /\ answer.kind = "object"
    /\ "amount" \in DOMAIN answer.fields => answer.fields.amount.t = "number"

ResultFields == {"payee", "amount", "date", "transaction_type", "category_id",
                 "category_name", "is_transaction", "confidence"}

(* C30: parsing a message never fails towards the caller: when the AI
   extractor is unavailable or raises (including unparsable output), the
   regex fallback result is returned with the same set of fields and
   confidence 0.5, while an extractor success carries confidence 0.95; in
   both cases is_transaction is true only when the extracted amount is
   > 0. *)
C30_ParsingNeverFails ==
    Parsed =>
        /\ ~last.raises
        /\ DOMAIN last.result = ResultFields
        /\ ExtractorFailed(last.answer) =>
              /\ last.result = fallback_parse(last.sms_body, last.user_categories).result
              /\ last.result.confidence = 50
        /\ ExtractorSucceeded(last.answer) => last.result.confidence = 95
        /\ last.result.is_transaction = "True" => last.result.amount.coefficient > 0

\* the same without its first clause, for the messages whose parsing returns
C30_ReturnedResultsAreAsStated ==
    (Parsed /\ ~last.raises) =>
        /\ DOMAIN last.result = ResultFields
        /\ ExtractorFailed(last.answer) =>
              /\ last.result = fallback_parse(last.sms_body, last.user_categories).result
              /\ last.result.confidence = 50
        /\ ExtractorSucceeded(last.answer) => last.result.confidence = 95
        /\ last.result.is_transaction = "True" => last.result.amount.coefficient > 0

\* a detection has been served for the default days_lookback
DetectedByDefault == Detected /\ last.days_lookback = 90

\* the date lies in the window [today - days, today]
InWindow(d, days) ==
    /\ Ordinal(Today) - days <= Ordinal(d)
    /\ Ordinal(d) <= Ordinal(Today)

(* C31: with the default lookback of 90 days, the detector never returns a
   result with frequency yearly: every transaction that contributes to a
   result is dated inside the window [today - 90 days, today]. *)
C31_DefaultLookbackNeverYearly ==
    DetectedByDefault =>
        /\ \A k \in 1..Len(last.detected) : last.detected[k].frequency # "yearly"
        /\ \A i \in 1..Len(last.rows) :
              (\E k \in 1..Len(last.detected) :
                    SamePayee(last.detected[k].payee_name, last.rows[i].payee_name))
                => InWindow(last.rows[i].transaction_date, 90)

\* the part of it that holds: no contributing transaction is dated before
\* today - 90 days
C31_NoRowBeforeTheWindow ==
    DetectedByDefault =>
        \A i \in 1..Len(last.rows) :
            Ordinal(Today) - 90 <= Ordinal(last.rows[i].transaction_date)

(* C32: a payee group with exactly two transactions (a single gap) whose gap
   lies in a band gets frequency-confidence 1.0, because the variance of one
   gap is taken as 0; with equal amounts (other than 0) the group is
   therefore reported, with overall confidence 1.0, the frequency of the
   band, and transaction_count 2. *)
C32_SingleGapHasFullConfidence ==
    Detected =>
        \A g \in PayeeGroups(last.rows) :
            LET gaps == GapsOf(last.rows, g)
                results == ResultsOf(last.detected, last.rows, g)
            IN (Cardinality(g) = 2 /\ BandOf(gaps) # NULL) =>
                  /\ determine_frequency(mean(gaps), gaps).confidence = FloatOne
                  /\ (\E a \in AmountsOf(last.rows, g) :
                            a # 0 /\ AmountsOf(last.rows, g) = {a})
                        => /\ results # {}
                           /\ \A k \in results :
                                /\ last.detected[k].confidence = FloatOne
                                /\ Hundredths(last.detected[k]) = 100
                                /\ last.detected[k].frequency = BandOf(gaps)
                                /\ last.detected[k].transaction_count = 2

\* a detection has reported two expenses of one amount, 30 days apart, as
\* monthly with confidence 1.0
C32_Witness ==
    /\ Detected
    /\ \E g \in PayeeGroups(last.rows) :
          /\ Cardinality(g) = 2
          /\ GapsOf(last.rows, g) = <<30>>
          /\ Cardinality(AmountsOf(last.rows, g)) = 1
          /\ \E k \in ResultsOf(last.detected, last.rows, g) :
                /\ last.detected[k].confidence = FloatOne
                /\ last.detected[k].frequency = "monthly"

\* a step that serves a move and answers 200
MoveSucceeds == /\ last'.op = "move" /\ last'.status = 200
                /\ categories' # categories

\* C33: a successful move between two categories of one owner leaves that
\* owner's to_be_budgeted as it was, whatever the hidden flags of the two
\* categories are.
C33_MoveKeepsToBeBudgeted ==
    [][MoveSucceeds =>
          get_to_be_budgeted(accounts', categories', last'.user)
              = get_to_be_budgeted(accounts, categories, last'.user)]_vars

\* the part of it that holds: a successful move between two categories with
\* the same hidden flag leaves the owner's to_be_budgeted as it was
C33_MoveBetweenEquallyHiddenKeepsToBeBudgeted ==
    [][(/\ MoveSucceeds
        /\ categories[last'.req.from_category_id].is_hidden
              = categories[last'.req.to_category_id].is_hidden) =>
          get_to_be_budgeted(accounts', categories', last'.user)
              = get_to_be_budgeted(accounts, categories, last'.user)]_vars

\* C34: the values one budget summary call returns are consistent with each
\* other, to_be_budgeted = total_balance - total_assigned, also when a post,
\* an assign or a move of another request is served between its reads.
C34_SummaryIsConsistent ==
    (last.op = "summary" /\ last.status = 200) =>
        last.body.to_be_budgeted = last.body.total_balance - last.body.total_assigned

\* the one transaction has been posted and voided, and no void is in flight
VoidsAreOver ==
    /\ next_txn_id = 2
    /\ transactions = {}
    /\ \A slot \in Slots : rq[slot].pc = "idle"

\* C35: when two voids of the same transaction are served at the same time,
\* in every interleaving the transaction's effect is reversed exactly once:
\* at the end the account balances and the category activities are what they
\* were before the transaction was posted.
C35_ConcurrentVoidsReverseOnce ==
    VoidsAreOver =>
        /\ \A a \in AccountIds : accounts[a].balance = OpeningBalance[a]
        /\ \A c \in CategoryIds : categories[c].activity_amount = 0

\* the items of the inbox that have left the status pending
Settled == {p \in pending_transactions : p.status # "pending"}

\* a step that serves an approve call
ApproveServed == last'.op = "approve" /\ last' # last

\* an approve call served while no item of the inbox is pending is refused
\* and writes nothing
RefusedWhenSettled ==
    (ApproveServed /\ pending_transactions = Settled) =>
        /\ last'.status \in {400, 404}
        /\ UNCHANGED <<accounts, categories, transactions, pending_transactions>>

\* C36: an approve of an item whose status is not pending is refused, stores
\* no transaction and changes no balance and no activity, so that in a series
\* of approve calls served one after the other the one item of the inbox
\* leaves at most one transaction in the ledger.
C36_ApproveOnlyOfPendingItems ==
    [][RefusedWhenSettled /\ Cardinality(transactions') <= 1]_vars

\* the part of it that holds: an approve is refused and writes nothing once
\* the item has left pending, and no item returns to pending
C36_SettledItemIsRefused ==
    [][/\ RefusedWhenSettled
       /\ \A p \in Settled : \E q \in pending_transactions' :
              q.id = p.id /\ q.status # "pending"]_vars

\* C37: when two approve calls for one item are served at the same time, or
\* an approve fails after its insert and is sent again, at most one
\* transaction is stored for the item and the account is charged at most
\* once.
C37_ItemStoredAndChargedOnce ==
    /\ Cardinality(transactions) <= 1
    /\ \A a \in AccountIds :
          accounts[a].balance \in
              {OpeningBalance[a]} \cup {OpeningBalance[a] - t.amount : t \in transactions}

\* C38: the status of an item is final once it has left pending: an item
\* that is approved or rejected keeps its status under every later approve
\* and reject call.
C38_SettledStatusIsFinal ==
    [][\A p \in Settled : \E q \in pending_transactions' :
          q.id = p.id /\ q.status = p.status]_vars

\* the part of it that holds: a rejected item stays rejected, and an
\* approved item is approved or rejected afterwards
C38_RejectedStatusIsFinal ==
    [][\A p \in Settled : \E q \in pending_transactions' :
          /\ q.id = p.id
          /\ q.status \in {p.status, "rejected"}]_vars

\* date e is later than date d
Later(e, d) == ~DateLE(e, d)

\* the confirm request in flight
Confirming == rq[1].pc = "while" /\ rq[1].op = "confirm"

\* the request has answered and its subscription is stored
Confirmed == last.op = "confirm" /\ last.status = 200

\* C39: calculate_next_due_date(d, frequency) is later than d for every date
\* d and every frequency, so that a confirm of a detected subscription
\* leaves its loop, and the subscription it stores is active, is due today
\* or later and has no account.
C39_ConfirmTerminatesAndStores ==
    /\ [](Confirming =>
            /\ Later(calculate_next_due_date(rq[1].detected.last_transaction_date,
                                             rq[1].detected.frequency),
                     rq[1].detected.last_transaction_date)
            /\ Later(calculate_next_due_date(rq[1].next_due, rq[1].detected.frequency),
                     rq[1].next_due))
    /\ (Confirming ~> Confirmed)
    /\ [](Confirmed =>
            /\ Cardinality(subscriptions) = 1
            /\ \A s \in subscriptions :
                  /\ s.id = last.id
                  /\ s.is_active
                  /\ DateLE(Today, s.next_due_date)
                  /\ s.account_id = NULL
                  /\ s.frequency = last.detected.frequency)

\* a monthly detection whose last transaction is of January 31st 2023 is
\* confirmed: the loop has run through the month ends of a year and left
\* the 28th of the month after today
C39_Witness ==
    /\ Confirmed
    /\ last.detected.frequency = "monthly"
    /\ last.detected.last_transaction_date = [year |-> 2023, month |-> 1, day |-> 31]
    /\ \E s \in subscriptions :
          s.next_due_date = [year |-> 2024, month |-> 3, day |-> 28]

\* the subscriptions a run of the owner posts for
Posting(owner) == {s \in due_subscriptions(subscriptions, owner) : s.account_id # NULL}

\* the row of subscription id is later than today
AfterToday(id) == \E s \in subscriptions : s.id = id /\ ~DateLE(s.next_due_date, Today)

\* subscription id is active and has a linked account
LinkedAndActive(id) ==
    \E s \in subscriptions : s.id = id /\ s.is_active /\ s.account_id # NULL

(* C40: one processDue run posts one transaction for every due subscription
   with a linked account, dated at its due date, and none besides, and
   advances the subscription by exactly one period, so that a subscription
   overdue by k periods is overdue by k - 1 after the run and still due when
   k > 1; under repeated runs without failures every active subscription
   with a linked account comes to have next_due_date > today. *)
C40_OnePeriodPerRun ==
    /\ [][ProcessDueStep =>
            LET owner == last'.user
                new == transactions' \ transactions
            IN /\ transactions \subseteq transactions'
               /\ Cardinality(new) = Cardinality(Posting(owner))
               /\ \A s \in Posting(owner) :
                     LET k == periods_overdue(s.next_due_date, s.frequency)
                         next_due == calculate_next_due_date(s.next_due_date, s.frequency)
                     IN /\ \E t \in new :
                              /\ t.transaction_date = s.next_due_date
                              /\ t.account_id = s.account_id
                              /\ t.amount = s.estimated_amount
                        /\ [s EXCEPT !.next_due_date = next_due] \in subscriptions'
                        /\ periods_overdue(next_due, s.frequency) = k - 1
                        /\ k > 1 => DateLE(next_due, Today)
               /\ \A s \in subscriptions \ Posting(owner) : s \in subscriptions']_vars
    /\ \A id \in SubIds : LinkedAndActive(id) ~> AfterToday(id)

\* a weekly or monthly subscription that was overdue by two periods has been
\* run twice: two transactions dated at its two due dates are stored and its
\* next_due_date is later than today
C40_Witness ==
    /\ last.op = "process_due"
    /\ Cardinality(transactions) = 2
    /\ \E s \in subscriptions, t1, t2 \in transactions :
          /\ LinkedAndActive(s.id) /\ AfterToday(s.id)
          /\ t1.transaction_date # t2.transaction_date
          /\ t2.transaction_date = calculate_next_due_date(t1.transaction_date, s.frequency)
          /\ s.next_due_date = calculate_next_due_date(t2.transaction_date, s.frequency)

====
